---- MODULE Spec2Model ----
(***************************************************************************)
(* Formula compiler, formula generator, windowed terrain sampler and the   *)
(* history / saved lists of the voxel terrain visualiser, in its two       *)
(* variants:                                                               *)
(*     "A"  src/script.js                                                  *)
(*     "B"  src/unnamed/part_000                                           *)
(*                                                                         *)
(* Numbers are fixed-point with three decimals (unit 1/1000, "milli"):     *)
(* 0.5 is 500.  A formula string is the sequence of its lexical tokens.    *)
(***************************************************************************)
EXTENDS Integers, Sequences, FiniteSets, TLC

(***************************************************************************)
(* Bounds of the model                                                     *)
(***************************************************************************)
\* The grid edge is 2 * HalfGrid columns (90 and 80 in the sources, both even).
HalfGrid == 1
\* Math.random() takes the values k / RandDenom during a resample pass.
RandDenom == 2
\* Noise.seed() draws one of this many shuffle sequences.
NumSeeds == 1
\* Shuffle sequences Noise.seed() draws from where only the table is studied.
NumShuffles == 64
\* gcd and lcm are called with the integers -IntBound .. IntBound.
IntBound == 6
\* Clicks on the generate button that draw a new formula, beyond those made
\* before the first state of a behaviour of the lists.
ExtraFresh == 2
\* Clicks on the other buttons in a behaviour of the lists.
OpBudget == 2
\* Length of the cycle of draws a click on the generate button sees.
DrawLen == 4
\* Clicks on the generate button in a behaviour of the generators.
GenBudget == 1

(***************************************************************************)
(* Program constants                                                       *)
(***************************************************************************)
\* one unit of the fixed-point representation: 10^3
FP == 10 * 10 * 10
LAYERS == 4
SENTINEL == -99999
HISTORY_CAP == 50
\* the length of Noise.perm
TABLE_SIZE == 512

Variants == {"A", "B"}

GRID == 2 * HalfGrid
TOTAL_INSTANCES == GRID * GRID * LAYERS

(***************************************************************************)
(* Small arithmetic helpers (fixed-point)                                  *)
(***************************************************************************)
Abs(n) == IF n < 0 THEN -n ELSE n
Sgn(n) == IF n < 0 THEN -1 ELSE IF n > 0 THEN 1 ELSE 0
\* Math.floor of a milli value, as a milli value / as an integer
FloorInt(n) == n \div FP
\* JS remainder: the sign of the dividend
Rem(a, b) == Sgn(a) * (Abs(a) % Abs(b))
\* truncating division of integers, divisor non-zero
TruncDiv(a, b) == Sgn(a) * Sgn(b) * (Abs(a) \div Abs(b))

(***************************************************************************)
(* JavaScript values as far as formulas produce them                       *)
(***************************************************************************)
\* Finite numbers are fixed-point with magnitude up to NumLimit (1000.000); a
\* finite result beyond it is kept at the limit.
NumLimit == FP * FP
Sat(n) == IF n > NumLimit THEN NumLimit ELSE IF n < -NumLimit THEN -NumLimit ELSE n
Num(n) == [t |-> "num", n |-> Sat(n)]
VNaN == [t |-> "nan", n |-> 0]
VInf == [t |-> "inf", n |-> 0]
VNegInf == [t |-> "ninf", n |-> 0]
VUndef == [t |-> "undef", n |-> 0]
VFn == [t |-> "fn", n |-> 0]
VObj == [t |-> "obj", n |-> 0]
VStr == [t |-> "str", n |-> 0]
VBig(n) == [t |-> "big", n |-> n]
\* an exception escaping the evaluation
VThrow == [t |-> "throw", n |-> 0]

\* typeof v === 'number'
TypeofNumber(v) == v.t \in {"num", "nan", "inf", "ninf"}
\* the global isNaN(v): ToNumber(v) is NaN.  Defined only where ToNumber
\* does not throw (see IsNaNThrows).
IsNaN(v) == v.t \in {"nan", "undef", "fn", "obj", "str"}
\* isNaN / isFinite / Math.floor throw a TypeError on a BigInt
IsNaNThrows(v) == v.t = "big"
IsFinite(v) == v.t = "num"
\* ToBoolean
Truthy(v) == CASE v.t = "num" -> v.n # 0
               [] v.t = "big" -> v.n # 0
               [] v.t \in {"nan", "undef"} -> FALSE
               [] OTHER -> TRUE

(***************************************************************************)
(* Lexical level: numeric literals and Number.prototype.toFixed            *)
(***************************************************************************)
Pad2(n) == IF n < 10 THEN "0" \o ToString(n) ELSE ToString(n)
Pad3(n) == IF n < 10 THEN "00" \o ToString(n)
           ELSE IF n < 100 THEN "0" \o ToString(n) ELSE ToString(n)

\* The digits toFixed(d) prints for the magnitude m >= 0 (milli), d in 2..4.
\* toFixed(2) rounds to the nearest hundredth; a value in milli has no
\* fourth decimal, so toFixed(4) appends a 0.
FixedDigits(m, d) ==
    IF d = 2 THEN LET c == (m + 5) \div 10
                  IN  ToString(c \div 100) \o "." \o Pad2(c % 100)
    ELSE IF d = 3 THEN ToString(m \div FP) \o "." \o Pad3(m % FP)
    ELSE ToString(m \div FP) \o "." \o Pad3(m % FP) \o "0"

\* The value denoted by the digits FixedDigits(m, d)
FixedValue(m, d) == IF d = 2 THEN ((m + 5) \div 10) * 10 ELSE m

\* n.toFixed(d) as it reads in a formula: a negative number prints with a
\* leading '-', which the language reads as the unary minus operator in
\* front of the literal.
ToFixed(n, d) == IF n < 0 THEN <<"-", FixedDigits(-n, d)>>
                 ELSE <<FixedDigits(n, d)>>

\* Integers printed by Number.prototype.toString
MaxIntLiteral == HISTORY_CAP + ExtraFresh + 8
IntLiterals == {<<ToString(k), k * FP>> : k \in 0..MaxIntLiteral}
\* Outcomes of Math.random() (milli) the generators draw from: one in every
\* interval their thresholds cut [0, 1) into
DrawValues == {40, 260, 340, 460, 660, 860}
\* draws that make HISTORY_CAP + ExtraFresh + 1 different coordinate scales
FreshDraws == {10 * k : k \in 0..(HISTORY_CAP + ExtraFresh)}
\* Math.random()*0.05 + 0.01, Math.random()*0.2 + 0.05, Math.random()*1.0 + 0.2
ScaleFine(r) == (r * 50) \div FP + 10
ScaleMid(r) == (r * 200) \div FP + 50
ScaleCoarse(r) == r + 200
\* Math.random() * 0.2 + 0.01, Math.random() * 20 - 10, Math.random()*0.1
ScaleVar(r) == (r * 200) \div FP + 10
LeafNumber(r) == r * 20 - 10 * FP
ScaleNoise(r) == (r * 100) \div FP
\* Magnitudes (milli) that appear as decimal literals in the model
DecimalMagnitudes == {0, 10, 20, 30, 50, 100, 200, 500, 700, 3500, 10000, 30500,
                      20500, 25500, 40500, 50500}
DecimalLiterals ==
    {<<FixedDigits(m, d), FixedValue(m, d)>> : m \in DecimalMagnitudes, d \in 2..4}
    \cup {<<FixedDigits(ScaleFine(r), 4), ScaleFine(r)>> : r \in DrawValues}
    \cup {<<FixedDigits(ScaleMid(r), 3), ScaleMid(r)>> : r \in DrawValues \cup FreshDraws}
    \cup {<<FixedDigits(ScaleCoarse(r), 2), FixedValue(ScaleCoarse(r), 2)>> : r \in DrawValues}
    \cup {<<FixedDigits(ScaleVar(r), 3), ScaleVar(r)>> : r \in DrawValues \cup FreshDraws}
    \cup {<<FixedDigits(Abs(LeafNumber(r)), 2), FixedValue(Abs(LeafNumber(r)), 2)>> : r \in DrawValues}
    \cup {<<FixedDigits(ScaleNoise(r), 3), ScaleNoise(r)>> : r \in DrawValues}
    \cup {<<"0.5", 500>>, <<"0.1", 100>>, <<"0.2", 200>>, <<"0.05", 50>>,
          <<"0.02", 20>>, <<"30.5", 30500>>}
LiteralPairs == IntLiterals \cup DecimalLiterals
LiteralStrings == {p[1] : p \in LiteralPairs}
\* the value of a numeric literal
NumValue == [s \in LiteralStrings |-> (CHOOSE p \in LiteralPairs : p[1] = s)[2]]

Punctuation == {"(", ")", ",", "+", "-", "*", "/", "^", "**", "&&"}
BigIntLiterals == {"1n"}
IsNumLit(tok) == tok \in LiteralStrings
IsIdent(tok) == tok \notin Punctuation /\ tok \notin LiteralStrings
                /\ tok \notin BigIntLiterals

(***************************************************************************)
(* The expression grammar of the language the compiled function is written *)
(* in, as far as formulas use it (new Function parses the body).  Binary   *)
(* operators by rising precedence: '&&'; '+' '-'; '*' '/'; '**', which     *)
(* associates to the right and whose left operand must not be a unary      *)
(* expression.  An operand is '-' operand, or a primary followed by any    *)
(* number of argument lists; a primary is a number, a bigint, an           *)
(* identifier or '(' expression ')'.                                       *)
(* A parse result is [ok, pos, ast, unary]; pos is the next unread token,  *)
(* unary tells an operand that starts with the unary minus.                *)
(***************************************************************************)
EOFTOK == "<eof>"
Tok(ts, p) == IF p >= 1 /\ p <= Len(ts) THEN ts[p] ELSE EOFTOK
PFail == [ok |-> FALSE, pos |-> 0, ast |-> <<"fail">>, unary |-> FALSE]
POk(p, a) == [ok |-> TRUE, pos |-> p, ast |-> a, unary |-> FALSE]
PNeg(p, a) == [ok |-> TRUE, pos |-> p, ast |-> a, unary |-> TRUE]
\* precedence of a binary operator, 0 for any other token
Prec(t) == CASE t = "&&" -> 1
             [] t \in {"+", "-"} -> 2
             [] t \in {"*", "/"} -> 3
             [] t = "**" -> 4
             [] OTHER -> 0
\* the least precedence an operator in the right operand of t may have
RightPrec(t) == IF t = "**" THEN 4 ELSE Prec(t) + 1

\* Parse(nt, ts, p, l):
\*   "Operand": the operand that starts at token p;
\*   "Calls":   the argument lists that follow the primary l;
\*   "Args":    the rest of an argument list from token p on, l.ast holding
\*              the arguments read so far;
\*   "Loop":    the binary operators of precedence p or more that follow the
\*              left operand l, with their right operands.
\* An expression at token q is Parse("Loop", ts, 1, Parse("Operand", ts, q, PFail)).
RECURSIVE Parse(_, _, _, _)
Parse(nt, ts, p, l) ==
    CASE nt = "Operand" ->
            IF Tok(ts, p) = "-" THEN
                LET r == Parse("Operand", ts, p + 1, PFail) IN
                IF r.ok THEN PNeg(r.pos, <<"neg", r.ast>>) ELSE PFail
            ELSE IF IsNumLit(Tok(ts, p))
            THEN Parse("Calls", ts, p, POk(p + 1, <<"num", NumValue[Tok(ts, p)]>>))
            ELSE IF Tok(ts, p) \in BigIntLiterals
            THEN Parse("Calls", ts, p, POk(p + 1, <<"big", 1>>))
            ELSE IF Tok(ts, p) = "(" THEN
                LET r == Parse("Loop", ts, 1, Parse("Operand", ts, p + 1, PFail)) IN
                IF r.ok /\ Tok(ts, r.pos) = ")"
                THEN Parse("Calls", ts, p, POk(r.pos + 1, r.ast))
                ELSE PFail
            ELSE IF Tok(ts, p) # EOFTOK /\ IsIdent(Tok(ts, p))
            THEN Parse("Calls", ts, p, POk(p + 1, <<"id", Tok(ts, p)>>))
            ELSE PFail
      [] nt = "Calls" ->
            IF Tok(ts, l.pos) = "(" THEN
                LET a == Parse("Args", ts, l.pos + 1, POk(p, <<>>)) IN
                IF a.ok
                THEN Parse("Calls", ts, p, POk(a.pos, <<"call", l.ast, a.ast>>))
                ELSE PFail
            ELSE l
      [] nt = "Args" ->
            IF Tok(ts, p) = ")" THEN POk(p + 1, l.ast)
            ELSE LET r == Parse("Loop", ts, 1, Parse("Operand", ts, p, PFail)) IN
                 IF ~r.ok THEN PFail
                 ELSE IF Tok(ts, r.pos) = ","
                    THEN Parse("Args", ts, r.pos + 1, POk(p, Append(l.ast, r.ast)))
                 ELSE IF Tok(ts, r.pos) = ")" THEN POk(r.pos + 1, Append(l.ast, r.ast))
                 ELSE PFail
      [] OTHER ->
            IF ~l.ok THEN PFail
            ELSE IF Prec(Tok(ts, l.pos)) = 0 \/ Prec(Tok(ts, l.pos)) < p THEN l
            \* SyntaxError: unary operator used immediately before '**'
            ELSE IF Tok(ts, l.pos) = "**" /\ l.unary THEN PFail
            ELSE LET r == Parse("Loop", ts, RightPrec(Tok(ts, l.pos)),
                                Parse("Operand", ts, l.pos + 1, PFail)) IN
                 IF r.ok
                 THEN Parse("Loop", ts, p,
                            POk(r.pos, <<"bin", Tok(ts, l.pos), l.ast, r.ast>>))
                 ELSE PFail

\* new Function(..., 'with(C) { return <ts>; }'): the body parses when <ts>
\* is empty ('return ;') or one whole expression.
ParseBody(ts) ==
    IF ts = <<>> THEN POk(1, <<"empty">>)
    ELSE LET r == Parse("Loop", ts, 1, Parse("Operand", ts, 1, PFail)) IN
         IF r.ok /\ r.pos = Len(ts) + 1 THEN r ELSE PFail

(***************************************************************************)
(* Arithmetic of the language on the values above                          *)
(***************************************************************************)
IsNumeric(v) == v.t \in {"num", "nan", "inf", "ninf"}
SignOf(v) == CASE v.t = "inf" -> 1 [] v.t = "ninf" -> -1 [] OTHER -> Sgn(v.n)
Signed(sg) == IF sg < 0 THEN VNegInf ELSE VInf
\* floor(a * b / FP), computed without the intermediate product a * b
MulFP(a, b) == (a \div FP) * b + ((a % FP) * b) \div FP

NegV(a) == CASE a.t = "throw" -> VThrow
             [] a.t = "num" -> Num(-a.n)
             [] a.t = "big" -> VBig(-a.n)
             [] a.t = "inf" -> VNegInf
             [] a.t = "ninf" -> VInf
             [] OTHER -> VNaN

AddNum(a, b) == CASE a.t = "nan" \/ b.t = "nan" -> VNaN
                  [] a.t = "num" /\ b.t = "num" -> Num(a.n + b.n)
                  [] a.t = "num" -> b
                  [] b.t = "num" -> a
                  [] a.t = b.t -> a
                  [] OTHER -> VNaN

MulNum(a, b) == CASE a.t = "nan" \/ b.t = "nan" -> VNaN
                  [] a.t = "num" /\ b.t = "num" -> Num(MulFP(a.n, b.n))
                  [] SignOf(a) = 0 \/ SignOf(b) = 0 -> VNaN
                  [] OTHER -> Signed(SignOf(a) * SignOf(b))

DivNum(a, b) == CASE a.t = "nan" \/ b.t = "nan" -> VNaN
                  [] a.t = "num" /\ b.t = "num" ->
                        IF b.n # 0 THEN Num((a.n * FP) \div b.n)
                        ELSE IF a.n = 0 THEN VNaN ELSE Signed(a.n)
                  [] a.t = "num" -> Num(0)
                  [] b.t = "num" -> Signed(SignOf(a) * (IF b.n < 0 THEN -1 ELSE 1))
                  [] OTHER -> VNaN

RECURSIVE PowInt(_, _)
PowInt(b, k) == IF k = 0 THEN FP ELSE Sat(MulFP(b, PowInt(b, k - 1)))
\* A stand-in for a real-valued library function the model does not
\* compute: a fixed function of its arguments with values in [-1, 1].
Opaque(k, a, b) == ((a * 7 + b * 13 + k * 101) % (2 * FP + 1)) - FP
PowNum(a, b) == CASE a.t = "num" /\ b.t = "num" ->
                        IF b.n % FP = 0 /\ b.n >= 0 /\ b.n <= 4 * FP
                        THEN Num(PowInt(a.n, b.n \div FP))
                        ELSE IF a.n < 0 /\ b.n % FP # 0 THEN VNaN
                        ELSE IF a.n = 0 /\ b.n < 0 THEN VInf
                        ELSE Num(Opaque(0, a.n, b.n))
                  [] b.t = "num" /\ b.n = 0 -> Num(FP)
                  [] OTHER -> VNaN

\* a op b for the arithmetic operators
Arith(op, a, b) ==
    IF a.t = "throw" \/ b.t = "throw" THEN VThrow
    ELSE IF a.t = "big" /\ b.t = "big" THEN
        CASE op = "+" -> VBig(a.n + b.n)
          [] op = "-" -> VBig(a.n - b.n)
          [] op = "*" -> VBig(a.n * b.n)
          [] op = "/" -> IF b.n = 0 THEN VThrow ELSE VBig(TruncDiv(a.n, b.n))
          [] OTHER -> IF b.n < 0 THEN VThrow ELSE VBig(a.n)
    \* TypeError: cannot mix BigInt and other types
    ELSE IF a.t = "big" \/ b.t = "big" THEN VThrow
    ELSE IF ~IsNumeric(a) \/ ~IsNumeric(b) THEN
        \* '+' concatenates when an operand is a string, function or object
        IF op = "+" /\ (a.t \in {"str", "fn", "obj"} \/ b.t \in {"str", "fn", "obj"})
        THEN VStr ELSE VNaN
    ELSE CASE op = "+" -> AddNum(a, b)
           [] op = "-" -> AddNum(a, NegV(b))
           [] op = "*" -> MulNum(a, b)
           [] op = "/" -> DivNum(a, b)
           [] OTHER -> PowNum(a, b)

(***************************************************************************)
(* Noise: the permutation table and the 2D simplex sample                  *)
(***************************************************************************)
\* the tuple <<lo, ..., hi>>
RECURSIVE Iota(_, _)
Iota(lo, hi) == IF lo = hi THEN <<lo>>
                ELSE LET mid == (lo + hi) \div 2 IN Iota(lo, mid) \o Iota(mid + 1, hi)
\* p[i] = i for i in 0..255, held as a tuple: p[i] of the code is p[i + 1] here
PermIdentity == Iota(0, 255)
\* The index Math.floor(Math.random()*256) drawn at step i of the shuffle,
\* for the c-th shuffle sequence of the model.
SeedDraw(c, i) == (i * (1 + c \div 16) + 19 * c) % 256
\* one step of the shuffle loop that overwrites p[i] and leaves p[r]
ShuffleStep_NoSwap(p, c, i) == LET r == SeedDraw(c, i)
                               IN  [p EXCEPT ![i + 1] = p[r + 1]]
\* one step of the shuffle loop: swap p[i] and p[r]
ShuffleStep(p, c, i) == LET r == SeedDraw(c, i)
                        IN  [p EXCEPT ![i + 1] = p[r + 1], ![r + 1] = p[i + 1]]
\* steps lo .. hi-1 of the shuffle loop, in order
RECURSIVE Shuffle(_, _, _, _)
Shuffle(p, c, lo, hi) ==
    IF hi - lo = 1 THEN ShuffleStep(p, c, lo)
    ELSE LET mid == (lo + hi) \div 2
             first == Shuffle(p, c, lo, mid)
         IN  IF Len(first) = Len(p) THEN Shuffle(first, c, mid, hi) ELSE first
\* Noise.seed() under shuffle sequence c: the table perm[0..511]
NoiseSeed(c) == LET p == Shuffle(PermIdentity, c, 0, 256)
                IN  [i \in 0..511 |-> p[(i % 256) + 1]]
SeedChoices == 0..(NumSeeds - 1)
ShuffleSequences == 0..(NumShuffles - 1)
PermOf == [c \in SeedChoices \cup ShuffleSequences |-> NoiseSeed(c)]

grad3 == << <<1,1,0>>, <<-1,1,0>>, <<1,-1,0>>, <<-1,-1,0>>, <<1,0,1>>, <<-1,0,1>>,
            <<1,0,-1>>, <<-1,0,-1>>, <<0,1,1>>, <<0,-1,1>>, <<0,1,-1>>, <<0,-1,-1>> >>
\* Noise.dot, g a 0-based gradient index
NoiseDot(g, x, y) == grad3[g + 1][1] * x + grad3[g + 1][2] * y
\* one corner's contribution: 0 when t < 0, else t^4 * dot
Corner(t, g, x, y) == IF t < 0 THEN 0
                      ELSE LET t2 == MulFP(t, t) IN MulFP(MulFP(t2, t2), NoiseDot(g, x, y))
\* the skewed cell (i, j) of the point (x, y), milli, and the middle corner
\* (i1, j1) of its simplex, with F2 = 0.366 and G2 = 0.211
SimplexCell(x, y) ==
    LET s == MulFP(x + y, 366)
        i == (x + s) \div FP
        j == (y + s) \div FP
        t == (i + j) * 211
        x0 == x - (i * FP - t)
        y0 == y - (j * FP - t)
    IN  [i |-> i, j |-> j, i1 |-> IF x0 > y0 THEN 1 ELSE 0,
         j1 |-> IF x0 > y0 THEN 0 ELSE 1]
\* i % 256, the remainder with the sign of i
CellIndex_Remainder(i) == Rem(i, 256)
\* i & 255: the low eight bits of the two's complement of i
CellIndex(i) == i % 256
\* perm[k]; a read outside the table gives undefined, which makes every
\* index computed from it NaN, an index outside every table: -TABLE_SIZE here
TableRead(perm, k) == IF k \in 0..(TABLE_SIZE - 1) THEN perm[k] ELSE -TABLE_SIZE
\* p % 12 of a table entry p
GradIndex(p) == IF p < 0 THEN p ELSE p % 12
\* The indices Noise.simplex reads perm at in the cell (i, j), in the order
\* jj, jj+j1, jj+1, ii+perm[jj], ii+i1+perm[jj+j1], ii+1+perm[jj+1], and the
\* gradient indices gi0, gi1, gi2.
SimplexReads(perm, i, j, i1, j1) ==
    LET ii == CellIndex(i)
        jj == CellIndex(j)
        k0 == ii + TableRead(perm, jj)
        k1 == ii + i1 + TableRead(perm, jj + j1)
        k2 == ii + 1 + TableRead(perm, jj + 1)
    IN  [perm |-> <<jj, jj + j1, jj + 1, k0, k1, k2>>,
         grad |-> <<GradIndex(TableRead(perm, k0)), GradIndex(TableRead(perm, k1)),
                    GradIndex(TableRead(perm, k2))>>]
\* Noise.simplex(x, y) on milli values, with F2 = 0.366 and G2 = 0.211
NoiseSimplex(perm, x, y) ==
    LET F2 == 366
        G2 == 211
        s == MulFP(x + y, F2)
        i == (x + s) \div FP
        j == (y + s) \div FP
        t == (i + j) * G2
        x0 == x - (i * FP - t)
        y0 == y - (j * FP - t)
        i1 == IF x0 > y0 THEN 1 ELSE 0
        j1 == IF x0 > y0 THEN 0 ELSE 1
        x1 == x0 - i1 * FP + G2
        y1 == y0 - j1 * FP + G2
        x2 == x0 - FP + 2 * G2
        y2 == y0 - FP + 2 * G2
        gi0 == SimplexReads(perm, i, j, i1, j1).grad[1]
        gi1 == SimplexReads(perm, i, j, i1, j1).grad[2]
        gi2 == SimplexReads(perm, i, j, i1, j1).grad[3]
        n0 == Corner(500 - MulFP(x0, x0) - MulFP(y0, y0), gi0, x0, y0)
        n1 == Corner(500 - MulFP(x1, x1) - MulFP(y1, y1), gi1, x1, y1)
        n2 == Corner(500 - MulFP(x2, x2) - MulFP(y2, y2), gi2, x2, y2)
    IN  70 * (n0 + n1 + n2)

\* Hash.val(x, z) of script.js, fract(sin(x*12.9898 + z*78.233)*43758.5453):
\* a fixed function of (x, z) with values in [0, 1).
HashVal(x, z) == (MulFP(x, 12990) + MulFP(z, 78233) + MulFP(x + z, 437)) % FP

(***************************************************************************)
(* The Math Context Ctx                                                    *)
(* (its Greek-letter aliases of the constants are left out)                *)
(***************************************************************************)
CtxConstants == [pi |-> 3142, e |-> 2718, phi |-> 1618, zeta3 |-> 1202,
                 catalan |-> 916, K |-> 916, alpha |-> 2503, feigenbaum |-> 2503,
                 delta |-> 4669, feigenbaumdelta |-> 4669, omega |-> 689]
CtxFunctionSeq ==
    << "sin", "cos", "tan", "csc", "sec", "cot", "asin", "acos", "atan", "atan2",
       "acsc", "asec", "acot", "sinh", "cosh", "tanh", "csch", "sech", "coth",
       "asinh", "acosh", "atanh", "acsch", "asech", "acoth", "sqrt", "cbrt",
       "root", "pow", "exp", "ln", "lg", "abs", "floor", "ceil", "round", "sign",
       "mod", "gcd", "lcm", "modi", "gamma", "erf", "beta", "rand", "randnormal",
       "randrange", "perlin", "simplex", "normal", "blended", "octaved", "max",
       "min", "sigmoid", "clamp" >>
CtxFunctions == {CtxFunctionSeq[i] : i \in 1..Len(CtxFunctionSeq)}
FnIndex(name) == CHOOSE i \in 1..Len(CtxFunctionSeq) : CtxFunctionSeq[i] = name
\* script.js keeps the coordinates of the evaluated cell in Ctx itself
CtxCoordKeys(v) == IF v = "A" THEN {"_x", "_z"} ELSE {}
\* the own keys of Ctx
CtxKeys(v) == CtxFunctions \cup DOMAIN CtxConstants \cup CtxCoordKeys(v)
\* names 'with' also finds on the prototype of Ctx
ProtoNames == {"toString", "valueOf"}
\* the name of the compiled function's first parameter
CtxParam(v) == IF v = "A" THEN "C" ELSE "ctx"
\* global bindings a formula can reach
GlobalNames == {"NaN", "Infinity", "undefined", "Math"}

\* An evaluation environment: the variant, the arguments x and z, the
\* content of Ctx._x / Ctx._z, the noise table and the value Math.random()
\* returns during the call.
Env(v, x, z, cx, cz, perm, rnd) ==
    [v |-> v, x |-> x, z |-> z, cx |-> cx, cz |-> cz, perm |-> perm, rnd |-> rnd]

\* Resolution of an identifier inside with(C) { ... }: the context object
\* first, then the parameters, then the global object; otherwise a
\* ReferenceError.
Resolve(name, env) ==
    IF name \in CtxFunctions THEN VFn
    ELSE IF name \in DOMAIN CtxConstants THEN Num(CtxConstants[name])
    ELSE IF name \in CtxCoordKeys(env.v)
        THEN Num(IF name = "_x" THEN env.cx ELSE env.cz)
    ELSE IF name \in ProtoNames THEN VFn
    ELSE IF name = "x" THEN Num(env.x)
    ELSE IF name = "z" THEN Num(env.z)
    ELSE IF name = CtxParam(env.v) THEN VObj
    ELSE IF name = "NaN" THEN VNaN
    ELSE IF name = "Infinity" THEN VInf
    ELSE IF name = "undefined" THEN VUndef
    ELSE IF name = "Math" THEN VObj
    ELSE VThrow

Arg(a, i) == IF i <= Len(a) THEN a[i] ELSE VUndef
\* x || d for a numeric parameter: d when x is 0, NaN or missing
OrDefault(x, d) == IF Truthy(x) THEN x ELSE Num(d)

\* the loop of gcd leaving after its first iteration
GcdLoop_OneStep(x, y) == IF y = 0 THEN x ELSE y
RECURSIVE GcdLoop(_, _)
GcdLoop(x, y) == IF y = 0 THEN x ELSE GcdLoop(y, x % y)
CtxGcd(x, y) == GcdLoop(Abs(x), Abs(y))
\* |x * y / gcd(x, y)|; the gcd divides x
CtxLcm(x, y) ==
    IF x = 0 \/ y = 0 THEN 0
    ELSE IF Abs(x \div CtxGcd(x, y)) > NumLimit \div Abs(y) THEN NumLimit
    ELSE Abs((x \div CtxGcd(x, y)) * y)

\* Ctx.octaved: the loop for i < n
RECURSIVE OctLoop(_, _, _, _, _, _, _, _, _)
OctLoop(perm, x, z, i, n, per, total, amp, freq) ==
    IF i * FP >= n THEN total
    ELSE OctLoop(perm, x, z, i + 1, n, per,
                 total + MulFP(NoiseSimplex(perm, x * freq, z * freq), amp),
                 MulFP(amp, per), freq * 2)
RECURSIVE OctMax(_, _, _, _, _)
OctMax(i, n, per, max, amp) ==
    IF i * FP >= n THEN max ELSE OctMax(i + 1, n, per, max + amp, MulFP(amp, per))
\* octaved with the first octave already scaled by per
CtxOctaved_PerFirst(perm, x, z, oct, per) ==
    LET n == OrDefault(oct, 4 * FP)
        p == OrDefault(per, 500)
    IN  IF n.t # "num" \/ p.t # "num" THEN VNaN
        ELSE DivNum(Num(OctLoop(perm, x, z, 0, n.n, p.n, 0, p.n, 1)),
                    Num(OctMax(0, n.n, p.n, 0, FP)))
CtxOctaved(perm, x, z, oct, per) ==
    LET n == OrDefault(oct, 4 * FP)
        p == OrDefault(per, 500)
    IN  IF n.t # "num" \/ p.t # "num" THEN VNaN
        ELSE DivNum(Num(OctLoop(perm, x, z, 0, n.n, p.n, 0, FP, 1)),
                    Num(OctMax(0, n.n, p.n, 0, FP)))

\* rand / randrange / randnormal: Hash.val of Ctx._x, Ctx._z in script.js,
\* Math.random() in part_000
UniformDraw(env) == IF env.v = "A" THEN HashVal(env.cx, env.cz) ELSE env.rnd
NormalDraw(env) ==
    IF env.v = "A"
    THEN LET u0 == HashVal(MulFP(env.cx, 1500), MulFP(env.cz, 1500))
             u == IF u0 <= 0 THEN 0 ELSE u0
             w == HashVal(MulFP(env.cx, 2500), MulFP(env.cz, 2500))
         IN  Opaque(FnIndex("randnormal"), u, w)
    ELSE Opaque(FnIndex("randnormal"), env.rnd, env.rnd + 1)
CtxRandNormal(mean, stdev, env) ==
    Arith("+", Arith("*", Num(NormalDraw(env)), OrDefault(stdev, FP)),
               OrDefault(mean, 0))

\* The call name(a) of a Ctx function on evaluated arguments.
CtxApply(name, a, env) ==
    LET a1 == Arg(a, 1)
        a2 == Arg(a, 2)
        a3 == Arg(a, 3)
        n1 == a1.t = "num"
        n2 == a2.t = "num"
        n3 == a3.t = "num"
        k == FnIndex(name)
    IN
    IF name \in {"rand"} THEN Num(UniformDraw(env))
    \* ToNumber of a BigInt is a TypeError
    ELSE IF \E i \in 1..Len(a) : a[i].t = "big" THEN VThrow
    ELSE IF name = "randrange"
        THEN Arith("+", Arith("*", Num(UniformDraw(env)), Arith("-", a2, a1)), a1)
    ELSE IF name = "randnormal" THEN CtxRandNormal(a1, a2, env)
    ELSE IF name = "normal" THEN CtxRandNormal(Num(0), Num(FP), env)
    ELSE IF name \in {"floor", "ceil", "round", "abs", "sign"} THEN
        CASE a1.t = "num" ->
                CASE name = "floor" -> Num((a1.n \div FP) * FP)
                  [] name = "ceil" -> Num(-(((-a1.n) \div FP) * FP))
                  [] name = "round" -> Num(((a1.n + 500) \div FP) * FP)
                  [] name = "abs" -> Num(Abs(a1.n))
                  [] OTHER -> Num(Sgn(a1.n) * FP)
          [] a1.t \in {"inf", "ninf"} ->
                CASE name = "abs" -> VInf
                  [] name = "sign" -> Num(SignOf(a1) * FP)
                  [] OTHER -> a1
          [] OTHER -> VNaN
    ELSE IF name = "mod" THEN
        IF n1 /\ n2 THEN (IF a2.n = 0 THEN VNaN ELSE Num(Rem(a1.n, a2.n)))
        ELSE IF n1 /\ a2.t \in {"inf", "ninf"} THEN a1 ELSE VNaN
    ELSE IF name \in {"max", "min"} THEN
        IF n1 /\ n2 THEN (IF (name = "max") = (a1.n >= a2.n) THEN a1 ELSE a2)
        ELSE VNaN
    ELSE IF name = "clamp" THEN
        IF n1 /\ n2 /\ n3
        THEN Num(LET m == IF a1.n >= a2.n THEN a1.n ELSE a2.n
                 IN  IF m <= a3.n THEN m ELSE a3.n)
        ELSE VNaN
    ELSE IF name = "pow" THEN PowNum(a1, a2)
    ELSE IF name = "gcd" THEN (IF n1 /\ n2 THEN Num(CtxGcd(a1.n, a2.n)) ELSE VNaN)
    ELSE IF name = "lcm" THEN (IF n1 /\ n2 THEN Num(CtxLcm(a1.n, a2.n)) ELSE VNaN)
    ELSE IF name \in {"perlin", "simplex"} THEN
        IF n1 /\ n3 THEN Num(NoiseSimplex(env.perm, a1.n, a3.n)) ELSE VNaN
    ELSE IF name = "blended" THEN
        IF n1 /\ n3
        THEN Num((NoiseSimplex(env.perm, a1.n, a3.n)
                  + MulFP(Opaque(FnIndex("sin"), a1.n, 0),
                          Opaque(FnIndex("cos"), a3.n, 0))) \div 2)
        ELSE VNaN
    ELSE IF name = "octaved" THEN
        IF n1 /\ n2 THEN CtxOctaved(env.perm, a1.n, a2.n, a3, Arg(a, 4)) ELSE VNaN
    ELSE IF name \in {"sqrt", "ln", "lg"} THEN
        IF ~n1 THEN VNaN
        ELSE IF a1.n < 0 THEN VNaN
        ELSE IF a1.n = 0 THEN (IF name = "sqrt" THEN Num(0) ELSE VNegInf)
        ELSE Num(Opaque(k, a1.n, 0))
    ELSE IF name = "gamma" /\ env.v = "B" /\ n1 /\ a1.n < 0 THEN Num(0)
    ELSE IF name \in {"atan2", "root", "beta"} THEN
        IF n1 /\ n2 THEN Num(Opaque(k, a1.n, a2.n)) ELSE VNaN
    ELSE IF n1 THEN Num(Opaque(k, a1.n, 0)) ELSE VNaN

(***************************************************************************)
(* Evaluation of a parsed formula body                                     *)
(***************************************************************************)
RECURSIVE Eval(_, _), EvalArgs(_, _, _)
\* the values of the arguments list[i], list[i+1], ... of a call
EvalArgs(list, i, env) ==
    IF i > Len(list) THEN <<>>
    ELSE <<Eval(list[i], env)>> \o EvalArgs(list, i + 1, env)
Eval(ast, env) ==
    LET kind == ast[1] IN
    CASE kind = "empty" -> VUndef
      [] kind = "num" -> Num(ast[2])
      [] kind = "big" -> VBig(ast[2])
      [] kind = "id" -> Resolve(ast[2], env)
      [] kind = "neg" -> NegV(Eval(ast[2], env))
      [] kind = "bin" ->
            IF ast[2] = "&&"
            THEN LET l == Eval(ast[3], env)
                 IN  IF l.t = "throw" THEN VThrow
                     ELSE IF Truthy(l) THEN Eval(ast[4], env) ELSE l
            ELSE LET l == Eval(ast[3], env)
                 IN  IF l.t = "throw" THEN VThrow
                     ELSE Arith(ast[2], l, Eval(ast[4], env))
      [] kind = "call" ->
            LET callee == Eval(ast[2], env)
                args == EvalArgs(ast[3], 1, env)
            IN  IF callee.t = "throw" THEN VThrow
                ELSE IF \E i \in 1..Len(args) : args[i].t = "throw" THEN VThrow
                \* TypeError: not a function
                ELSE IF callee.t # "fn" THEN VThrow
                ELSE IF ast[2][1] # "id" THEN VThrow
                ELSE IF ast[2][2] = "toString" THEN VStr
                ELSE IF ast[2][2] = "valueOf" THEN VObj
                ELSE CtxApply(ast[2][2], args, env)
      [] OTHER -> VThrow

(***************************************************************************)
(* Formula compiler                                                        *)
(***************************************************************************)
\* str.replace(/\^/g, '**')
RewriteCaret(str) == [i \in 1..Len(str) |-> IF str[i] = "^" THEN "**" ELSE str[i]]

\* null; a compiled function is the token sequence of its body
NoFunc == <<"<null>">>
\* no error message shown
NoError == ""

\* The function new Function builds from a body that parses
BodyOf(f) == ParseBody(f).ast
\* A call fn(Ctx, x, z) of a function compiled by script.js: the value, or
\* VThrow when an exception escapes.
CallA(fn, env) == Eval(fn, env)
\* A call of a function compiled by part_000, whose body is wrapped in
\* try { return ...; } catch(e) { return NaN; }
CallB(fn, env) == LET r == Eval(fn, env)
                  IN  IF r.t = "throw" THEN VNaN ELSE r

\* compileFormula of script.js without the assignments Ctx._x = 0; Ctx._z = 0
\* before the smoke call
CompileFormulaA_StaleCoords(str, perm, ctxX, ctxZ) ==
    LET safeStr == RewriteCaret(str) IN
    IF ~ParseBody(safeStr).ok
    THEN [f |-> NoFunc, err |-> "INVALID SYNTAX OR ARGUMENTS",
          ctxX |-> ctxX, ctxZ |-> ctxZ]
    ELSE IF CallA(BodyOf(safeStr), Env("A", 0, 0, ctxX, ctxZ, perm, 0)).t = "throw"
    THEN [f |-> NoFunc, err |-> "INVALID SYNTAX OR ARGUMENTS",
          ctxX |-> ctxX, ctxZ |-> ctxZ]
    ELSE [f |-> safeStr, err |-> NoError, ctxX |-> ctxX, ctxZ |-> ctxZ]

\* compileFormula of script.js: [f, err, ctxX, ctxZ]
CompileFormulaA(str, perm, ctxX, ctxZ) ==
    LET safeStr == RewriteCaret(str) IN
    IF ~ParseBody(safeStr).ok
    THEN [f |-> NoFunc, err |-> "INVALID SYNTAX OR ARGUMENTS",
          ctxX |-> ctxX, ctxZ |-> ctxZ]
    ELSE IF CallA(BodyOf(safeStr), Env("A", 0, 0, 0, 0, perm, 0)).t = "throw"
    THEN [f |-> NoFunc, err |-> "INVALID SYNTAX OR ARGUMENTS", ctxX |-> 0, ctxZ |-> 0]
    ELSE [f |-> safeStr, err |-> NoError, ctxX |-> 0, ctxZ |-> 0]

\* compileFormula of part_000: the function, or null on a syntax error
CompileFormulaB(str) ==
    LET safeStr == RewriteCaret(str)
    IN  IF ParseBody(safeStr).ok THEN safeStr ELSE NoFunc

(***************************************************************************)
(* Terrain sampler                                                         *)
(***************************************************************************)
Columns == 0..(GRID * GRID - 1)
Slots == 0..(TOTAL_INSTANCES - 1)
\* an instance slot never written: a zero matrix and no color
EmptySlot == [x |-> 0, y |-> 0, z |-> 0, color |-> "none", shade |-> 0]
EmptyBuffer == [idx \in Slots |-> EmptySlot]

\* text.includes('mod') on a token sequence: the tokens that contain 'mod'
ModTokens == {"mod", "modi"}
IncludesMod(text) == \E i \in 1..Len(text) : text[i] \in ModTokens

SnowLine(v) == IF v = "A" THEN 30 ELSE 20
AlienAbove(v) == IF v = "A" THEN 50 ELSE 40
LavaBelow(v) == IF v = "A" THEN -25 ELSE -20

\* the neon rule of script.js applied after the alien and lava rules
Biome_NeonLast(v, surfaceY, y, text) ==
    LET base == IF surfaceY < -2 THEN "WATER"
                ELSE IF surfaceY < 2 THEN "SAND"
                ELSE IF surfaceY < 12 THEN "GRASS"
                ELSE IF surfaceY < SnowLine(v) THEN "STONE"
                ELSE "SNOW"
        alien == IF y > AlienAbove(v) * FP THEN "ALIEN" ELSE base
        lava == IF y < LavaBelow(v) * FP THEN "LAVA" ELSE alien
    IN  IF v = "A" /\ IncludesMod(text) /\ surfaceY > 5 THEN "NEON" ELSE lava

\* the bands with height -2 counted as water
Biome_WaterInclusive(v, surfaceY, y, text) ==
    LET base == IF surfaceY <= -2 THEN "WATER"
                ELSE IF surfaceY < 2 THEN "SAND"
                ELSE IF surfaceY < 12 THEN "GRASS"
                ELSE IF surfaceY < SnowLine(v) THEN "STONE"
                ELSE "SNOW"
        neon == IF v = "A" /\ IncludesMod(text) /\ surfaceY > 5 THEN "NEON" ELSE base
        alien == IF y > AlienAbove(v) * FP THEN "ALIEN" ELSE neon
    IN  IF y < LavaBelow(v) * FP THEN "LAVA" ELSE alien

\* The biome of a column: surfaceY the floored height, y the raw height
\* (milli), text the formula text the neon rule of script.js looks at.
Biome(v, surfaceY, y, text) ==
    LET base == IF surfaceY < -2 THEN "WATER"
                ELSE IF surfaceY < 2 THEN "SAND"
                ELSE IF surfaceY < 12 THEN "GRASS"
                ELSE IF surfaceY < SnowLine(v) THEN "STONE"
                ELSE "SNOW"
        neon == IF v = "A" /\ IncludesMod(text) /\ surfaceY > 5 THEN "NEON" ELSE base
        alien == IF y > AlienAbove(v) * FP THEN "ALIEN" ELSE neon
    IN  IF y < LavaBelow(v) * FP THEN "LAVA" ELSE alien

\* the layer colors with the subsurface palette on layers 1 and 2 in both
\* variants
LayerColor_DeepSubsurface(v, biome, d) ==
    IF d = 0 THEN
        CASE biome = "WATER" -> "water"
          [] biome = "SAND" -> "sand"
          [] biome = "GRASS" -> "grass"
          [] biome = "STONE" -> "stone"
          [] biome = "ALIEN" -> "alien"
          [] biome = "LAVA" -> "lava"
          [] biome = "NEON" /\ v = "A" -> "neon"
          [] OTHER -> "snow"
    ELSE IF d = 1 \/ d = 2 THEN
        CASE biome = "WATER" -> "water"
          [] biome = "SAND" -> "sand"
          [] biome = "GRASS" -> "dirt"
          [] OTHER -> "stone"
    ELSE "stone"

\* the palette entry copied into the color of layer d
LayerColor(v, biome, d) ==
    IF d = 0 THEN
        CASE biome = "WATER" -> "water"
          [] biome = "SAND" -> "sand"
          [] biome = "GRASS" -> "grass"
          [] biome = "STONE" -> "stone"
          [] biome = "ALIEN" -> "alien"
          [] biome = "LAVA" -> "lava"
          [] biome = "NEON" /\ v = "A" -> "neon"
          [] OTHER -> "snow"
    ELSE IF d = 1 \/ (v = "B" /\ d = 2) THEN
        CASE biome = "WATER" -> "water"
          [] biome = "SAND" -> "sand"
          [] biome = "GRASS" -> "dirt"
          [] OTHER -> "stone"
    ELSE "stone"

\* the factor (per mille) the color of layer d is multiplied by
LayerShade(v, d) == IF d = 0 THEN FP
                    ELSE IF v = "A" THEN 900 - d * 100 ELSE 900 - d * 50

\* world coordinates of column c = i * GRID + j around the anchor
ColumnX(cx, c) == cx - HalfGrid + (c \div GRID)
ColumnZ(cz, c) == cz - HalfGrid + (c % GRID)

\* Math.random() as seen by column c of a pass with draw r
RandomAt(r, c) == (((r + c) % RandDenom) * FP) \div RandDenom

\* the value the compiled function returns for column c (VThrow: it threw)
ColumnResult(v, fn, perm, cx, cz, r, c) ==
    LET wx == ColumnX(cx, c) * FP
        wz == ColumnZ(cz, c) * FP
    IN  IF v = "A" THEN CallA(fn, Env(v, wx, wz, wx, wz, perm, 0))
        ELSE CallB(fn, Env(v, wx, wz, 0, 0, perm, RandomAt(r, c)))

\* the height y after the substitution of 0 for a failed evaluation
ColumnHeight(res) == IF res.t = "num" THEN res.n ELSE 0

\* In part_000 isNaN(y) stands outside the try: a BigInt result throws out
\* of updateVoxels.  In script.js it is inside the try and y becomes 0.
ColumnAborts(v, res) == v = "B" /\ IsNaNThrows(res)

\* The value the function returns for every column of the window.
ColumnResults(v, fn, perm, cx, cz, r) ==
    [c \in Columns |-> ColumnResult(v, fn, perm, cx, cz, r, c)]

\* The first column whose body throws out of the loops, GRID * GRID when
\* the loops run to their end.
FirstAbort(v, res) ==
    LET aborting == {c \in Columns : ColumnAborts(v, res[c])}
    IN  IF aborting = {} THEN GRID * GRID
        ELSE CHOOSE c \in aborting : \A o \in aborting : c <= o

\* The body of the loop over the layers: the slot of layer d takes the
\* translation (wx, surfaceY - d, wz) and the color of the layer.
LayerLoop(v, biome, wx, surfaceY, wz, d) ==
    [x |-> wx, y |-> surfaceY - d, z |-> wz,
     color |-> LayerColor(v, biome, d), shade |-> LayerShade(v, d)]

\* The body of the loops for one column once its height y is known: the
\* biome, then layer d.
ColumnWrite(v, text, wx, wz, y, d) ==
    LayerLoop(v, Biome(v, FloorInt(y), y, text), wx, FloorInt(y), wz, d)

\* The loops over the columns, c = i * GRID + j, and their layers d, with
\* idx = c * LAYERS + d: they write the columns before stop.  The buffer
\* after them, the value of idx, whether they ran to their end, and the
\* last column evaluated.
ColumnLoop(v, text, cx, cz, buf, res, stop) ==
    [inst |-> [idx \in Slots |->
                 IF idx \div LAYERS < stop
                 THEN ColumnWrite(v, text, ColumnX(cx, idx \div LAYERS),
                                  ColumnZ(cz, idx \div LAYERS),
                                  ColumnHeight(res[idx \div LAYERS]), idx % LAYERS)
                 ELSE buf[idx]],
     writes |-> stop * LAYERS,
     complete |-> stop = GRID * GRID,
     lastX |-> ColumnX(cx, IF stop = GRID * GRID THEN stop - 1 ELSE stop),
     lastZ |-> ColumnZ(cz, IF stop = GRID * GRID THEN stop - 1 ELSE stop)]
\* The loops stop in front of the first column whose body throws.
ColumnStep(v, text, cx, cz, buf, res) ==
    ColumnLoop(v, text, cx, cz, buf, res, FirstAbort(v, res))

\* One resample pass of updateInfiniteTerrain / updateVoxels with anchor
\* (cx, cz), idx starting at 0.
ResamplePass(v, f, text, perm, cx, cz, r, inst) ==
    ColumnStep(v, text, cx, cz, inst,
               ColumnResults(v, BodyOf(f), perm, cx, cz, r))

(***************************************************************************)
(* Program state.  A handler is an operator from the state before it to    *)
(* the state after it; s is a record with one field per variable.          *)
(***************************************************************************)
VARIABLES
    variant,        \* "A": src/script.js, "B": src/unnamed/part_000
    permSeed,       \* the draws of the last Noise.seed(); perm is PermOf[permSeed]
    compiledFunc,   \* compiledFunc (A) / currentFormulaFunction (B)
    currentFormula, \* currentFormula (A)
    currentData,    \* currentData (B)
    lastCamX,
    lastCamZ,
    ctxX,           \* Ctx._x (A), milli
    ctxZ,           \* Ctx._z (A), milli
    cam,            \* (x, z) of camera.position (A) / controls.target (B), milli
    inst,           \* the instance buffer: matrix translation and color per slot
    errorMsg,       \* text of the error element
    inputValue,     \* ui.input.value
    tags,           \* the tag elements of the panel
    historyList,
    savedList,
    writes,         \* slots written by the last handler
    lastPass,       \* what the last resample pass sampled
    lastOp,         \* the last handler and its argument
    currentTab,     \* currentTab (A): the list the sidebar shows
    steps,          \* clicks counted against the budgets: gen on the generate
                    \* button, ops on the other buttons
    call,           \* the last call of a Ctx function made on its own: name,
                    \* arguments and result
    rows            \* per container of the sidebar, the list its rows were
                    \* rendered from and the items the rows show; the row at
                    \* position k holds the index k - 1

vars == <<variant, permSeed, compiledFunc, currentFormula, currentData, lastCamX,
          lastCamZ, ctxX, ctxZ, cam, inst, errorMsg, inputValue, tags,
          historyList, savedList, writes, lastPass, lastOp, currentTab, steps, call,
          rows>>

Now == [variant |-> variant, permSeed |-> permSeed, compiledFunc |-> compiledFunc,
        currentFormula |-> currentFormula, currentData |-> currentData,
        lastCamX |-> lastCamX, lastCamZ |-> lastCamZ, ctxX |-> ctxX, ctxZ |-> ctxZ,
        cam |-> cam, inst |-> inst, errorMsg |-> errorMsg,
        inputValue |-> inputValue, tags |-> tags, historyList |-> historyList,
        savedList |-> savedList, writes |-> writes, lastPass |-> lastPass,
        lastOp |-> lastOp, currentTab |-> currentTab, steps |-> steps,
        rows |-> rows]

\* no Ctx function has been called on its own
NoCall == [name |-> "", args |-> <<>>, result |-> VUndef]

Becomes(after) ==
    \E s \in {after} :
    /\ variant' = s.variant
    /\ permSeed' = s.permSeed
    /\ compiledFunc' = s.compiledFunc
    /\ currentFormula' = s.currentFormula
    /\ currentData' = s.currentData
    /\ lastCamX' = s.lastCamX
    /\ lastCamZ' = s.lastCamZ
    /\ ctxX' = s.ctxX
    /\ ctxZ' = s.ctxZ
    /\ cam' = s.cam
    /\ inst' = s.inst
    /\ errorMsg' = s.errorMsg
    /\ inputValue' = s.inputValue
    /\ tags' = s.tags
    /\ historyList' = s.historyList
    /\ savedList' = s.savedList
    /\ writes' = s.writes
    /\ lastPass' = s.lastPass
    /\ lastOp' = s.lastOp
    /\ currentTab' = s.currentTab
    /\ steps' = s.steps
    /\ rows' = s.rows
    /\ call' = call

Is(loaded) ==
    \E s \in {loaded} :
    /\ variant = s.variant
    /\ permSeed = s.permSeed
    /\ compiledFunc = s.compiledFunc
    /\ currentFormula = s.currentFormula
    /\ currentData = s.currentData
    /\ lastCamX = s.lastCamX
    /\ lastCamZ = s.lastCamZ
    /\ ctxX = s.ctxX
    /\ ctxZ = s.ctxZ
    /\ cam = s.cam
    /\ inst = s.inst
    /\ errorMsg = s.errorMsg
    /\ inputValue = s.inputValue
    /\ tags = s.tags
    /\ historyList = s.historyList
    /\ savedList = s.savedList
    /\ writes = s.writes
    /\ lastPass = s.lastPass
    /\ lastOp = s.lastOp
    /\ currentTab = s.currentTab
    /\ steps = s.steps
    /\ rows = s.rows
    /\ call = NoCall

\* lastPass: whether a pass has run at all (ran), whether the last handler
\* ran it (fresh), and what it sampled
NoPass == [ran |-> FALSE, fresh |-> FALSE, func |-> NoFunc, text |-> <<>>, seed |-> 0,
           cx |-> 0, cz |-> 0, draw |-> 0, complete |-> FALSE]
PassOf(f, text, seed, cx, cz, r, complete) ==
    [ran |-> TRUE, fresh |-> TRUE, func |-> f, text |-> text, seed |-> seed,
     cx |-> cx, cz |-> cz, draw |-> r, complete |-> complete]

\* Every handler starts with no slot written by it.
Begin(s, op, arg) == [s EXCEPT !.writes = 0, !.lastPass.fresh = FALSE,
                               !.lastOp = [op |-> op, arg |-> arg]]

(***************************************************************************)
(* script.js                                                               *)
(***************************************************************************)
\* the state once the loops of updateInfiniteTerrain, started with anchor
\* (cx, cz), have produced p
AfterPassA(s, cx, cz, p) ==
    [s EXCEPT !.lastCamX = cx, !.lastCamZ = cz,
              !.inst = p.inst, !.writes = @ + p.writes,
              !.ctxX = p.lastX * FP, !.ctxZ = p.lastZ * FP,
              !.lastPass = PassOf(s.compiledFunc, s.currentFormula, s.permSeed,
                                  cx, cz, 0, p.complete)]

updateInfiniteTerrain(s) ==
    IF s.compiledFunc = NoFunc THEN s
    ELSE IF /\ Abs(FloorInt(s.cam[1]) - s.lastCamX) < 1
            /\ Abs(FloorInt(s.cam[2]) - s.lastCamZ) < 1 THEN s
    ELSE AfterPassA(s, FloorInt(s.cam[1]), FloorInt(s.cam[2]),
                    ResamplePass("A", s.compiledFunc, s.currentFormula,
                                 PermOf[s.permSeed], FloorInt(s.cam[1]),
                                 FloorInt(s.cam[2]), 0, s.inst))

\* updateTerrain resetting the anchor before it looks at what compileFormula
\* returned
AfterCompileA_AnchorFirst(s, c) ==
    IF c.f = NoFunc
    THEN [s EXCEPT !.errorMsg = c.err, !.ctxX = c.ctxX, !.ctxZ = c.ctxZ,
                   !.lastCamX = SENTINEL]
    ELSE updateInfiniteTerrain([s EXCEPT !.errorMsg = c.err, !.ctxX = c.ctxX,
                                         !.ctxZ = c.ctxZ, !.compiledFunc = c.f,
                                         !.lastCamX = SENTINEL])

\* updateTerrain once compileFormula has returned c
AfterCompileA(s, c) ==
    IF c.f = NoFunc
    THEN [s EXCEPT !.errorMsg = c.err, !.ctxX = c.ctxX, !.ctxZ = c.ctxZ]
    ELSE updateInfiniteTerrain([s EXCEPT !.errorMsg = c.err, !.ctxX = c.ctxX,
                                         !.ctxZ = c.ctxZ, !.compiledFunc = c.f,
                                         !.lastCamX = SENTINEL])

updateTerrain(s, funcStr) ==
    AfterCompileA([s EXCEPT !.currentFormula = funcStr],
                  CompileFormulaA(funcStr, PermOf[s.permSeed], s.ctxX, s.ctxZ))

\* one frame of animate: resample, then controls.update() moves the camera
animateA(s, pos) == [updateInfiniteTerrain(s) EXCEPT !.cam = pos]

(***************************************************************************)
(* part_000                                                                *)
(***************************************************************************)
\* validateAndRender once compileFormula has returned func and, when func
\* is a function, the smoke call has returned val
AfterCompileB(s, formula, type, name, func, val) ==
    IF func = NoFunc
    THEN [s EXCEPT !.errorMsg = "INVALID SYNTAX OR CHARACTERS"]
    ELSE IF IsNaNThrows(val)
    THEN [s EXCEPT !.errorMsg = "RUNTIME ERROR: Cannot convert a BigInt value to a number"]
    ELSE IF IsNaN(val) /\ ~TypeofNumber(val)
    THEN [s EXCEPT !.errorMsg = "RUNTIME ERROR: RESULT IS NaN"]
    ELSE [s EXCEPT !.errorMsg = NoError,
                   !.compiledFunc = func,
                   !.currentData = [type |-> type, name |-> name, formula |-> formula],
                   !.inputValue = formula,
                   !.tags = [type |-> type, name |-> name],
                   !.lastCamX = SENTINEL]

\* validateAndRender: the state after it; it returned true iff errorMsg is
\* empty afterwards.  r is the outcome of Math.random() during the call.
validateAndRender(s, formula, type, name, r) ==
    AfterCompileB(s, formula, type, name, CompileFormulaB(formula),
                  CallB(BodyOf(CompileFormulaB(formula)),
                        Env("B", 0, 0, 0, 0, PermOf[s.permSeed], RandomAt(r, 0))))

\* the frame once updateVoxels, started with anchor (cx, cz), has produced
\* p: a throw out of updateVoxels leaves lastCamX, lastCamZ as they were
AfterPassB(s, cx, cz, r, p) ==
    [s EXCEPT !.inst = p.inst, !.writes = @ + p.writes,
              !.lastPass = PassOf(s.compiledFunc, s.currentData.formula, s.permSeed,
                                  cx, cz, r, p.complete),
              !.lastCamX = IF p.complete THEN cx ELSE @,
              !.lastCamZ = IF p.complete THEN cz ELSE @]

\* one frame of animate: controls.update() moves the target, then the test
\* of the anchor; updateVoxels returns at once without a function.
animateB(s, pos, r) ==
    IF FloorInt(pos[1]) = s.lastCamX /\ FloorInt(pos[2]) = s.lastCamZ
    THEN [s EXCEPT !.cam = pos]
    ELSE IF s.compiledFunc = NoFunc
    THEN [s EXCEPT !.cam = pos, !.lastCamX = FloorInt(pos[1]),
                   !.lastCamZ = FloorInt(pos[2])]
    ELSE AfterPassB([s EXCEPT !.cam = pos], FloorInt(pos[1]), FloorInt(pos[2]), r,
                    ResamplePass("B", s.compiledFunc, s.currentData.formula,
                                 PermOf[s.permSeed], FloorInt(pos[1]),
                                 FloorInt(pos[2]), r, s.inst))

(***************************************************************************)
(* History and saved lists                                                 *)
(***************************************************************************)
Unshift(list, data) == <<data>> \o list
Pop(list) == SubSeq(list, 1, Len(list) - 1)
\* list.splice(index, 1): nothing is removed at an index past the end
Splice(list, index) ==
    IF index >= Len(list) THEN list
    ELSE SubSeq(list, 1, index) \o SubSeq(list, index + 2, Len(list))
SomeFormula(list, formula) == \E i \in 1..Len(list) : list[i].formula = formula
ListOf(s, tab) == IF tab = "history" THEN s.historyList ELSE s.savedList
\* the rows forEach builds from list: list names the array the handlers of
\* the rows hold, items what they show
Rendered(s, list) == [list |-> list, items |-> ListOf(s, list)]
\* renderSidebar leaving the rows as they are
renderSidebar_Keep(s) == s
\* renderSidebar of script.js: the rows of the list of the current tab
renderSidebar(s) == [s EXCEPT !.rows.sidebar = Rendered(s, s.currentTab)]
\* renderList of part_000 for the container of list
renderList(s, list) == [s EXCEPT !.rows[list] = Rendered(s, list)]
\* if(currentTab === list) renderSidebar()
RenderIfShown(s, list) == IF s.currentTab = list THEN renderSidebar(s) ELSE s

\* addToHistory of script.js without the eviction of the last entry
addToHistoryA_NoEviction(s, data) ==
    IF Len(s.historyList) > 0 /\ s.historyList[1].formula = data.formula THEN s
    ELSE RenderIfShown([s EXCEPT !.historyList = Unshift(@, data)], "history")

\* addToHistory of script.js: only the head is compared
addToHistoryA(s, data) ==
    IF Len(s.historyList) > 0 /\ s.historyList[1].formula = data.formula THEN s
    ELSE LET l == Unshift(s.historyList, data)
         IN  RenderIfShown([s EXCEPT !.historyList = IF Len(l) > HISTORY_CAP THEN Pop(l)
                                                     ELSE l],
                           "history")

\* addToHistory of part_000 comparing only the head
addToHistoryB_HeadOnly(s, data) ==
    IF Len(s.historyList) > 0 /\ s.historyList[1].formula = data.formula THEN s
    ELSE LET l == Unshift(s.historyList, data)
         IN  renderList([s EXCEPT !.historyList = IF Len(l) > HISTORY_CAP THEN Pop(l)
                                                  ELSE l],
                        "history")

\* addToHistory of part_000: the whole list is searched
addToHistoryB(s, data) ==
    IF SomeFormula(s.historyList, data.formula) THEN s
    ELSE LET l == Unshift(s.historyList, data)
         IN  renderList([s EXCEPT !.historyList = IF Len(l) > HISTORY_CAP THEN Pop(l)
                                                  ELSE l],
                        "history")

saveCurrentA(s) ==
    LET data == [formula |-> s.inputValue, type |-> s.tags.type, noise |-> s.tags.noise,
                 name |-> IF s.tags.name = "" THEN "Custom" ELSE s.tags.name]
    IN  IF SomeFormula(s.savedList, data.formula) THEN s
        ELSE RenderIfShown([s EXCEPT !.savedList = Unshift(@, data)], "saved")

\* saveCurrent of part_000 without the search for the formula
saveCurrentB_NoSearch(s) ==
    renderList([s EXCEPT !.savedList = Unshift(@, s.currentData)], "saved")

saveCurrentB(s) ==
    IF SomeFormula(s.savedList, s.currentData.formula) THEN s
    ELSE renderList([s EXCEPT !.savedList = Unshift(@, s.currentData)], "saved")

\* the list with formula name after list.splice(index, 1)
Spliced(s, list, index) ==
    IF list = "history" THEN [s EXCEPT !.historyList = Splice(@, index)]
    ELSE [s EXCEPT !.savedList = Splice(@, index)]
\* the delete button of the row that holds index (0-based) in container tab:
\* the list the row was built from is spliced and rendered again
deleteRow(s, tab, index) ==
    IF s.variant = "A" THEN renderSidebar(Spliced(s, s.rows[tab].list, index))
    ELSE renderList(Spliced(s, s.rows[tab].list, index), s.rows[tab].list)

\* a click on a tab of script.js
switchTab(s, tab) == renderSidebar([s EXCEPT !.currentTab = tab])

\* a click on the content of a row
clickRowA(s, item) ==
    updateTerrain([s EXCEPT !.inputValue = item.formula,
                            !.tags = [noise |-> item.noise, type |-> item.type,
                                      name |-> item.name]],
                  item.formula)
clickRowB(s, item, r) == validateAndRender(s, item.formula, item.type, item.name, r)

\* the input event: the text box holds the typed text
inputA(s, text) ==
    updateTerrain([s EXCEPT !.inputValue = text,
                            !.tags = [noise |-> "USER", type |-> "CUSTOM",
                                      name |-> "Edited"]],
                  text)
inputB(s, text, r) ==
    validateAndRender([s EXCEPT !.inputValue = text], text, "CUSTOM", "Manual Input", r)

generateNewA(s, seed, cat, formula, name) ==
    LET s1 == [s EXCEPT !.permSeed = seed, !.inputValue = formula,
                        !.tags = [noise |-> "RANDOM", type |-> cat, name |-> name]]
    IN  addToHistoryA(updateTerrain(s1, formula),
                      [formula |-> formula, type |-> cat, noise |-> "RND", name |-> name])

\* generateNew of part_000 once validateAndRender has left state s1
HistoryIfValid(s1, data) ==
    IF s1.errorMsg = NoError THEN addToHistoryB(s1, data) ELSE s1
generateNewB(s, seed, data, r) ==
    HistoryIfValid(validateAndRender([s EXCEPT !.permSeed = seed], data.formula,
                                     data.type, data.name, r),
                   data)

\* The camera after the reset button of script.js: position (50, 50, 50),
\* target (20, 0, 20), then updateZoom sets the distance to
\* 300 - 295 * 0.5 = 152.5 along (30, 50, 30), whose length is 65.574:
\* x = z = 20 + 30 * 152.5 / 65.574 = 89.768
ResetCamA == <<89768, 89768>>
resetCamA(s) == [s EXCEPT !.cam = ResetCamA]
resetCamB(s) == [s EXCEPT !.cam = <<0, 0>>, !.lastCamX = SENTINEL]

(***************************************************************************)
(* Formula generators.  Math.random() is the stream st of draws (milli),   *)
(* repeated cyclically; p counts the draws taken so far.  Every builder    *)
(* returns [s |-> tokens, p |-> draws taken after it].                     *)
(***************************************************************************)
Draw(st, p) == st[(p % Len(st)) + 1]
\* arr[Math.floor(Math.random() * arr.length)]
Pick(arr, r) == arr[((r * Len(arr)) \div FP) + 1]
Built(s, p) == [s |-> s, p |-> p]
\* pre a mid b post, where b was built after a
Join(pre, a, mid, b, post) == Built(pre \o a.s \o mid \o b.s \o post, b.p)
Wrap(pre, a, post) == Built(pre \o a.s \o post, a.p)

\* case 'HARDCODED' of generate
HardcodedA ==
    <<"floor", "(", "sin", "(", "x", "*", "0.1", ")", "*", "cos", "(", "z", "*", "0.1",
      ")", "*", "10", ")">>

GenOps == [unary |-> <<"sin", "cos", "tan", "abs", "floor", "ceil", "round", "sqrt",
                       "ln", "sigmoid", "sign">>,
           binary |-> <<"pow", "mod", "max", "min", "root">>,
           noise |-> <<"perlin", "simplex", "octaved">>,
           ops |-> <<"+", "-", "*", "/">>,
           vars |-> <<"x", "z">>,
           consts |-> <<"pi", "e">>]
NameGen == [adj |-> <<"Cosmic", "Quantum", "Voxel", "Hyper", "Cyber", "Glitch",
                      "Floating", "Lost", "Neon", "Dark", "Solar", "Lunar", "Infinite",
                      "Fractal", "Recursive", "Broken", "Twisted", "Hollow", "Solid",
                      "Divine">>,
            noun |-> <<"Lands", "Waves", "Mountains", "Valley", "Spire", "Grid",
                       "Matrix", "Core", "Void", "Peaks", "Dunes", "Ocean", "Maze",
                       "Labyrinth", "Citadel", "Expanse", "Realm", "Sector", "Zone",
                       "Field">>]
NameGenGet(st, p) == Pick(NameGen.adj, Draw(st, p)) \o " " \o Pick(NameGen.noun, Draw(st, p + 1))

getScale(st, p) ==
    IF Draw(st, p) < 300 THEN Built(ToFixed(ScaleFine(Draw(st, p + 1)), 4), p + 2)
    ELSE IF Draw(st, p) < 700 THEN Built(ToFixed(ScaleMid(Draw(st, p + 1)), 3), p + 2)
    ELSE Built(ToFixed(ScaleCoarse(Draw(st, p + 1)), 2), p + 2)

getCoord(st, p) ==
    Built(<<Pick(GenOps.vars, Draw(st, p)), "*">> \o getScale(st, p + 1).s, p + 3)

RECURSIVE createExpression(_, _, _)
\* createExpression returning a leaf only below depth 0 (depth < 0)
createExpression_LeafBelowZero(depth, st, p) ==
    IF depth < 0
    THEN IF Draw(st, p) < 400 THEN getCoord(st, p + 1)
         ELSE IF Draw(st, p) < 500
         THEN Built(<<Pick(GenOps.consts, Draw(st, p + 1))>>, p + 2)
         ELSE IF Draw(st, p) < 700
         THEN Built(<<ToString((Draw(st, p + 1) * 20) \div FP)>>, p + 2)
         ELSE Built(<<"rand", "(", ")", "*", "10">>, p + 1)
    ELSE IF Draw(st, p) < 250
    THEN LET a == createExpression(depth - 1, st, p + 2)
         IN  Join(<<"(">>, a, <<Pick(GenOps.ops, Draw(st, p + 1))>>,
                  createExpression(depth - 1, st, a.p), <<")">>)
    ELSE IF Draw(st, p) < 500
    THEN Wrap(<<Pick(GenOps.unary, Draw(st, p + 1)), "(">>,
              createExpression(depth - 1, st, p + 2), <<")">>)
    ELSE IF Draw(st, p) < 750
    THEN IF Pick(GenOps.noise, Draw(st, p + 1)) = "octaved"
         THEN Join(<<"octaved", "(">>, getCoord(st, p + 2), <<",">>,
                   getCoord(st, p + 5), <<",", "4", ",", "0.5", ")">>)
         ELSE Join(<<Pick(GenOps.noise, Draw(st, p + 1)), "(">>, getCoord(st, p + 2),
                   <<",", "0", ",">>, getCoord(st, p + 5), <<")">>)
    ELSE LET a == createExpression(depth - 1, st, p + 2)
         IN  Join(<<Pick(GenOps.binary, Draw(st, p + 1)), "(">>, a, <<",">>,
                  createExpression(depth - 1, st, a.p), <<")">>)
createExpression(depth, st, p) ==
    IF depth <= 0
    THEN IF Draw(st, p) < 400 THEN getCoord(st, p + 1)
         ELSE IF Draw(st, p) < 500
         THEN Built(<<Pick(GenOps.consts, Draw(st, p + 1))>>, p + 2)
         ELSE IF Draw(st, p) < 700
         THEN Built(<<ToString((Draw(st, p + 1) * 20) \div FP)>>, p + 2)
         ELSE Built(<<"rand", "(", ")", "*", "10">>, p + 1)
    ELSE IF Draw(st, p) < 250
    THEN LET a == createExpression(depth - 1, st, p + 2)
         IN  Join(<<"(">>, a, <<Pick(GenOps.ops, Draw(st, p + 1))>>,
                  createExpression(depth - 1, st, a.p), <<")">>)
    ELSE IF Draw(st, p) < 500
    THEN Wrap(<<Pick(GenOps.unary, Draw(st, p + 1)), "(">>,
              createExpression(depth - 1, st, p + 2), <<")">>)
    ELSE IF Draw(st, p) < 750
    THEN IF Pick(GenOps.noise, Draw(st, p + 1)) = "octaved"
         THEN Join(<<"octaved", "(">>, getCoord(st, p + 2), <<",">>,
                   getCoord(st, p + 5), <<",", "4", ",", "0.5", ")">>)
         ELSE Join(<<Pick(GenOps.noise, Draw(st, p + 1)), "(">>, getCoord(st, p + 2),
                   <<",", "0", ",">>, getCoord(st, p + 5), <<")">>)
    ELSE LET a == createExpression(depth - 1, st, p + 2)
         IN  Join(<<Pick(GenOps.binary, Draw(st, p + 1)), "(">>, a, <<",">>,
                  createExpression(depth - 1, st, a.p), <<")">>)

\* formula.replace(/\^\^/g, '^'): scanning from the left, the second '^' of
\* every pair is dropped, which is every '^' with an odd number of '^'
\* directly before it
CaretsBefore(str, i) ==
    i - 1 - (CHOOSE j \in 0..(i - 1) :
                /\ j = 0 \/ str[j] # "^"
                /\ \A k \in (j + 1)..(i - 1) : str[k] = "^")
CaretsKept(str) == {i \in 1..Len(str) : str[i] # "^" \/ CaretsBefore(str, i) % 2 = 0}
CollapseCarets(str) ==
    IF \A i \in 1..(Len(str) - 1) : str[i] # "^" \/ str[i + 1] # "^" THEN str
    ELSE [k \in 1..Cardinality(CaretsKept(str)) |->
             str[CHOOSE i \in CaretsKept(str) :
                    Cardinality({j \in CaretsKept(str) : j < i}) = k - 1]]

\* `${base} + ${next} - ${last}` of case 'LONG MATH', base and next built
LongMath(st, a, b) ==
    Join(a.s \o <<"+">>, b, <<"-">>, createExpression(2, st, b.p), <<>>)

\* the switch of generate(type)
GenerateCase(type, st, p) ==
    IF type = "HARDCODED" THEN Built(HardcodedA, p)
    ELSE IF type = "INTERMEDIATE"
    THEN Wrap(<<>>, createExpression(3, st, p), <<"*", "8">>)
    ELSE IF type = "EXPERT"
    THEN LET a == createExpression(4, st, p)
         IN  Join(<<"(">>, a, <<"+">>, createExpression(2, st, a.p), <<")", "*", "15">>)
    ELSE IF type = "UNREAL"
    THEN LET base == createExpression(3, st, p)
         IN  Join(<<"mod", "(">>, base, <<",", "20", ")", "*", "sin", "(">>,
                  getCoord(st, base.p),
                  <<")", "*", "5", "+", "rand", "(", ")", "*", "5">>)
    ELSE LET a == createExpression(2, st, p)
         IN  LongMath(st, a, createExpression(2, st, a.p))

Collapsed(f) == Built(CollapseCarets(f.s), f.p)
generate(type, st, p) == Collapsed(GenerateCase(type, st, p))

Categories == <<"HARDCODED", "INTERMEDIATE", "EXPERT", "UNREAL", "LONG MATH">>

\* what generateNew of script.js draws: cat, formula and name
DrawnA(cat, f, st) == [type |-> cat, formula |-> f.s, name |-> NameGenGet(st, f.p)]
GeneratedA(st) ==
    DrawnA(Pick(Categories, Draw(st, 0)), generate(Pick(Categories, Draw(st, 0)), st, 1), st)

\* Generator of part_000
HardcodedWaves ==
    <<"sin", "(", "x", "*", "0.1", ")", "*", "cos", "(", "z", "*", "0.1", ")", "*", "10">>
HardcodedSteps ==
    <<"floor", "(", "sin", "(", "x", "*", "0.2", ")", "+", "cos", "(", "z", "*", "0.2",
      ")", ")", "*", "5">>
Generator ==
    [ops |-> <<"+", "-", "*", "/", "^">>,
     vars |-> <<"x", "z">>,
     unary |-> <<"sin", "cos", "tan", "csc", "sec", "cot", "sinh", "cosh", "tanh", "abs",
                 "floor", "ceil", "round", "sqrt", "cbrt", "exp", "ln", "lg", "sigmoid",
                 "erf", "gamma", "sign">>,
     binary |-> <<"pow", "mod", "max", "min", "atan2">>,
     noise |-> << <<"perlin", "(", "x", "*", "S", ",", "0", ",", "z", "*", "S", ")">>,
                  <<"simplex", "(", "x", "*", "S", ",", "0", ",", "z", "*", "S", ")">>,
                  <<"blended", "(", "x", "*", "S", ",", "0", ",", "z", "*", "S", ")">>,
                  <<"octaved", "(", "x", "*", "S", ",", "z", "*", "S", ",", "4", ",",
                    "0.5", ")">> >>,
     consts |-> <<"pi", "e", "phi", "zeta3", "catalan">>,
     types |-> <<"HARDCODED", "INTERMEDIATE", "EXPERT", "UNREAL", "LONG">>]

\* template.replace(/S/g, lit)
ReplaceS(template, lit) ==
    [i \in 1..Len(template) |-> IF template[i] = "S" THEN lit ELSE template[i]]

getVar(st, p) ==
    Built(<<"(", Pick(Generator.vars, Draw(st, p)), "*">>
          \o ToFixed(ScaleVar(Draw(st, p + 1)), 3) \o <<")">>, p + 2)

RECURSIVE buildTree(_, _, _, _)
buildTree(depth, mode, st, p) ==
    IF depth <= 0
    THEN IF Draw(st, p) < 300 THEN Built(ToFixed(LeafNumber(Draw(st, p + 1)), 2), p + 2)
         ELSE IF Draw(st, p) < 400 /\ mode # "HARDCODED"
         THEN Built(<<Pick(Generator.consts, Draw(st, p + 1))>>, p + 2)
         ELSE IF Draw(st, p) < 700 THEN getVar(st, p + 1)
         ELSE IF mode = "UNREAL"
         THEN Built(ReplaceS(Pick(Generator.noise, Draw(st, p + 1)),
                             FixedDigits(ScaleNoise(Draw(st, p + 2)), 3)), p + 3)
         ELSE getVar(st, p + 1)
    ELSE IF Draw(st, p) < 400
    THEN Wrap(<<Pick(Generator.unary, Draw(st, p + 1)), "(">>,
              buildTree(depth - 1, mode, st, p + 2), <<")">>)
    ELSE IF Draw(st, p) < 600
    THEN LET a == buildTree(depth - 1, mode, st, p + 2)
         IN  Join(<<Pick(Generator.binary, Draw(st, p + 1)), "(">>, a, <<",">>,
                  buildTree(depth - 1, mode, st, a.p), <<")">>)
    ELSE LET a == buildTree(depth - 1, mode, st, p + 2)
         IN  Join(<<"(">>, a, <<Pick(Generator.ops, Draw(st, p + 1))>>,
                  buildTree(depth - 1, mode, st, a.p), <<")">>)

\* the switch of create(): formula and name
CreateCase(type, st, p) ==
    IF type = "HARDCODED"
    THEN IF Draw(st, p) > 500 THEN [formula |-> HardcodedSteps, name |-> "Steps"]
         ELSE [formula |-> HardcodedWaves, name |-> "Simple Waves"]
    ELSE IF type = "INTERMEDIATE"
    THEN [formula |-> buildTree(2, "INTERMEDIATE", st, p).s \o <<"*", "5">>,
          name |-> "Algebraic"]
    ELSE IF type = "EXPERT"
    THEN [formula |-> <<"gamma", "(", "abs", "(">> \o getVar(st, p).s
                      \o <<")", ")", "*", "2", "+", "sin", "(">> \o getVar(st, p + 2).s
                      \o <<")", "*", "10">>,
          name |-> "Complex Func"]
    ELSE IF type = "UNREAL"
    THEN [formula |-> <<"(">> \o ReplaceS(Pick(Generator.noise, Draw(st, p)), "0.05")
                      \o <<"*", "20", ")", "+", "(">>
                      \o ReplaceS(Pick(Generator.noise, Draw(st, p + 1)), "0.02")
                      \o <<"*", "10", ")">>,
          name |-> "Noise Terrain"]
    ELSE [formula |-> buildTree(5, "LONG", st, p).s, name |-> "Deep Math"]

Created(type, made) == [type |-> type, name |-> made.name, formula |-> made.formula]
create(st) ==
    Created(Pick(Generator.types, Draw(st, 0)),
            CreateCase(Pick(Generator.types, Draw(st, 0)), st, 1))

\* the record generateNew builds from the draws st
Generated(v, st) == IF v = "A" THEN GeneratedA(st) ELSE create(st)

(***************************************************************************)
(* Page load                                                               *)
(***************************************************************************)
\* let currentFormula = "sin(x*0.1)*cos(z*0.1)*10"
InitialFormulaA ==
    <<"sin", "(", "x", "*", "0.1", ")", "*", "cos", "(", "z", "*", "0.1", ")", "*", "10">>
\* let currentData = { type: 'READY', name: 'INIT', formula: '0' }
InitialDataB == [type |-> "READY", name |-> "INIT", formula |-> <<"0">>]
\* (x, z) of INITIAL_CAM_POS (A) and of controls.target (B), milli
InitialCam(v) == IF v = "A" THEN <<50 * FP, 50 * FP>> ELSE <<0, 0>>

\* the containers of the sidebar before anything is rendered into them
NoRows(v) ==
    IF v = "A" THEN [sidebar |-> [list |-> "history", items |-> <<>>]]
    ELSE [history |-> [list |-> "history", items |-> <<>>],
          saved |-> [list |-> "saved", items |-> <<>>]]
\* The state when the script has run up to its last statement: Noise.seed()
\* has drawn seed, and animate() has run its first frame without a function,
\* which in part_000 records the anchor (0, 0).
LoadState(v, seed) ==
    [variant |-> v, permSeed |-> seed, compiledFunc |-> NoFunc,
     currentFormula |-> IF v = "A" THEN InitialFormulaA ELSE <<>>,
     currentData |-> IF v = "B" THEN InitialDataB
                     ELSE [type |-> "", name |-> "", formula |-> <<>>],
     lastCamX |-> IF v = "A" THEN SENTINEL ELSE FloorInt(InitialCam(v)[1]),
     lastCamZ |-> IF v = "A" THEN SENTINEL ELSE FloorInt(InitialCam(v)[2]),
     ctxX |-> 0, ctxZ |-> 0, cam |-> InitialCam(v), inst |-> EmptyBuffer,
     errorMsg |-> NoError, inputValue |-> <<>>,
     tags |-> IF v = "A" THEN [noise |-> "", type |-> "", name |-> ""]
              ELSE [type |-> "", name |-> ""],
     historyList |-> <<>>, savedList |-> <<>>, writes |-> 0, lastPass |-> NoPass,
     lastOp |-> [op |-> "load", arg |-> <<>>], currentTab |-> "history",
     steps |-> [gen |-> 0, ops |-> 0], rows |-> NoRows(v)]


\* Outcomes of Math.random() explored while formula f is evaluated: only
\* part_000 calls Math.random(), and only from rand, randrange, randnormal.
RandomNames == {"rand", "randrange", "randnormal"}
RandomDraws(v, f) ==
    IF v = "B" /\ \E i \in 1..Len(f) : f[i] \in RandomNames THEN 0..(RandDenom - 1)
    ELSE {0}

generateNew(s, seed, data, r) ==
    IF s.variant = "A" THEN generateNewA(s, seed, data.type, data.formula, data.name)
    ELSE generateNewB(s, seed, data, r)

\* the page after its script has run: generateNew() was its last statement
Loaded(v, seed0, seed, data) ==
    generateNew(Begin(LoadState(v, seed0), "generateNew", data.formula), seed, data, 0)

(***************************************************************************)
(* Formulas typed into the text box                                        *)
(***************************************************************************)
TypedLinear == <<"x", "*", "0.5", "+", "2">>
TypedSyntaxError == <<"sin", "(", "x", "+", "*", "z", ")">>
TypedUnknownName == <<"foo">>
TypedSingular == <<"1", "/", "x", "+", "0", "/", "z", "+", "5">>
TypedEmpty == <<>>
TypedGuarded == <<"(", "x", "&&", "foo", ")", "+", "5">>
TypedRand == <<"rand", "(", ")", "*", "10">>
TypedBigInt == <<"x", "&&", "1n">>
TypedBigLiteral == <<"1n">>
TypedFormulas ==
    {TypedLinear, TypedSyntaxError, TypedUnknownName, TypedSingular, TypedEmpty,
     TypedGuarded, TypedRand, TypedBigInt, TypedBigLiteral}

\* positions (x, z) the controls move the camera / target to, milli
CamPoints == {<<FP, 0>>, <<0, -500>>}

(***************************************************************************)
(* Actions                                                                 *)
(***************************************************************************)
\* the user edits the text box
InputEvent ==
    \E text \in TypedFormulas : \E r \in RandomDraws(variant, text) :
        /\ text # inputValue
        /\ Becomes(IF variant = "A" THEN inputA(Begin(Now, "input", text), text)
                   ELSE inputB(Begin(Now, "input", text), text, r))

\* one animation frame
Frame ==
    \E pos \in CamPoints, r \in RandomDraws(variant, compiledFunc) :
        Becomes(IF variant = "A" THEN animateA(Begin(Now, "animate", <<>>), pos)
                ELSE animateB(Begin(Now, "animate", <<>>), pos, r))

\* the reset-camera button
ResetCam ==
    /\ variant \in Variants
    /\ Becomes(IF variant = "A" THEN resetCamA(Begin(Now, "resetCam", <<>>))
            ELSE resetCamB(Begin(Now, "resetCam", <<>>)))

\* a click on a row of the sidebar
RowsShown == DOMAIN rows
ClickRow ==
    \E tab \in RowsShown : \E i \in 1..Len(rows[tab].items) :
        LET item == rows[tab].items[i]
            s == Begin(Now, "click", item.formula)
        IN  \E r \in RandomDraws(variant, item.formula) :
                Becomes(IF variant = "A" THEN clickRowA(s, item)
                        ELSE clickRowB(s, item, r))

\* draws that make the first generateNew() take case 'HARDCODED'
LowDraws == <<40>>

Init == \E v \in Variants, seed \in SeedChoices :
            Is(Loaded(v, 0, seed, Generated(v, LowDraws)))

Next == InputEvent \/ Frame \/ ResetCam \/ ClickRow

Spec == Init /\ [][Next]_vars

(***************************************************************************)
(* The generate button                                                     *)
(***************************************************************************)
RECURSIVE SeqsOver(_, _)
SeqsOver(S, n) ==
    IF n = 0 THEN {<<>>} ELSE {<<x>> \o t : x \in S, t \in SeqsOver(S, n - 1)}
\* the streams of draws a click on the button may see
DrawStreams == SeqsOver(DrawValues, DrawLen)

GenerateNew ==
    /\ steps.gen < GenBudget
    /\ \E st \in DrawStreams, seed \in SeedChoices :
          \E data \in {Generated(variant, st)} :
             \E r \in RandomDraws(variant, data.formula) :
                Becomes([generateNew(Begin(Now, "generateNew", data.formula), seed,
                                     data, r)
                         EXCEPT !.steps.gen = @ + 1])

NextGen == GenerateNew

SpecGen == Init /\ [][NextGen]_vars

(***************************************************************************)
(* The history and saved lists                                             *)
(***************************************************************************)
\* draws that make generateNew build a formula of its own for every k: in
\* script.js 'INTERMEDIATE' with a perlin call, in part_000 'EXPERT'
FreshStream(v, k) ==
    IF v = "A" THEN <<260, 660, 40, 40, 340, 10 * k, 40, 340, 40, 40, 40>>
    ELSE <<460, 40, 10 * k, 40, 40>>

\* a click on the generate button that draws data
ClickGenerate(s, data) ==
    generateNew(Begin(s, "generateNew", data.formula), s.permSeed, data, 0)

\* the page after the clicks k .. n on the generate button, the first half of
\* them taken before the second
RECURSIVE Prefill(_, _, _)
Prefill(s, k, n) ==
    IF k > n THEN s
    ELSE IF k = n
    THEN [ClickGenerate(s, Generated(s.variant, FreshStream(s.variant, k)))
          EXCEPT !.steps.gen = k]
    ELSE LET half == Prefill(s, k, (k + n) \div 2)
         IN  IF half.steps.gen = (k + n) \div 2
             THEN Prefill(half, (k + n) \div 2 + 1, n) ELSE s

\* numbers of clicks on the generate button before the first state
PrefillChoices == {0, HISTORY_CAP - ExtraFresh}

InitHist ==
    \E v \in Variants, n \in PrefillChoices :
        Is(Prefill(Loaded(v, 0, 0, Generated(v, LowDraws)), 1, n))

\* the generate button, drawing a formula not generated before
GenerateFresh ==
    /\ \E n \in PrefillChoices : steps.gen < n + ExtraFresh /\ steps.gen >= n
    /\ \E data \in {Generated(variant, FreshStream(variant, steps.gen + 1))} :
          Becomes([ClickGenerate(Now, data) EXCEPT !.steps.gen = @ + 1])

\* the generate button, drawing again one of the last two formulas it drew
\* or the first one
GenerateAgain ==
    /\ steps.ops < OpBudget
    /\ \E k \in {steps.gen, steps.gen - 1, 1} \cap 1..steps.gen :
          \E data \in {Generated(variant, FreshStream(variant, k))} :
             Becomes([ClickGenerate(Now, data) EXCEPT !.steps.ops = @ + 1])

\* the save button
SaveCurrent ==
    /\ steps.ops < OpBudget
    /\ Becomes([(IF variant = "A" THEN saveCurrentA(Begin(Now, "saveCurrent", <<>>))
                 ELSE saveCurrentB(Begin(Now, "saveCurrent", <<>>)))
                EXCEPT !.steps.ops = @ + 1])

\* the delete button of the first, second or last row of a list shown
DeleteRow ==
    /\ steps.ops < OpBudget
    /\ \E tab \in RowsShown :
          \E index \in {0, 1, Len(rows[tab].items) - 1} \cap 0..(Len(rows[tab].items) - 1) :
             Becomes([deleteRow(Begin(Now, "delete", <<tab, ToString(index)>>), tab, index)
                      EXCEPT !.steps.ops = @ + 1])

\* the tabs of script.js
SwitchTab ==
    /\ variant = "A"
    /\ \E tab \in {"history", "saved"} \ {currentTab} :
          Becomes(switchTab(Begin(Now, "tab", <<>>), tab))

NextHist == GenerateFresh \/ GenerateAgain \/ SaveCurrent \/ DeleteRow \/ SwitchTab

SpecHist == InitHist /\ [][NextHist]_vars

(***************************************************************************)
(* Constant formulas: the user types a number, so that every column of     *)
(* the window has that height.  In part_000 the next frame resamples.      *)
(***************************************************************************)
\* heights (milli) on both sides of every threshold of the biome logic
BandHeights ==
    {k * FP : k \in {-26, -25, -21, -20, -3, -2, 1, 2, 5, 6, 11, 12, 19, 20, 29, 30,
                     40, 41, 50, 51}}
    \cup {-25500, -20500, 40500, 50500}
\* the text of the number h
HeightText(h) ==
    IF h % FP # 0 THEN ToFixed(h, 2)
    ELSE IF h < 0 THEN <<"-", ToString((-h) \div FP)>> ELSE <<ToString(h \div FP)>>
\* mod(k, 60), which is k, for heights around the neon and alien thresholds
ModHeights == {5, 6, 30, 50, 51}
ModText(k) == <<"mod", "(", ToString(k), ",", "60", ")">>
\* a text with 'mod' in it that does not compile
TypedModUnclosed == <<"mod", "(">>
BandFormulas == {HeightText(h) : h \in BandHeights} \cup {ModText(k) : k \in ModHeights}
                    \cup {TypedModUnclosed}

InputBand ==
    \E text \in BandFormulas :
        /\ text # inputValue
        /\ Becomes(IF variant = "A" THEN inputA(Begin(Now, "input", text), text)
                   ELSE inputB(Begin(Now, "input", text), text, 0))

NextBands == InputBand \/ Frame

SpecBands == Init /\ [][NextBands]_vars

(***************************************************************************)
(* Formulas that read Ctx._x and Ctx._z, the fields script.js assigns      *)
(* before every call of the compiled function                              *)
(***************************************************************************)
TypedCtxCoords == <<"_x", "*", "2", "+", "_z">>
TypedCtxGuardX == <<"(", "_x", "&&", "foo", ")", "+", "5">>
TypedCtxGuardZ == <<"(", "_z", "&&", "foo", ")", "+", "7">>
CoordFormulas == {TypedCtxCoords, TypedCtxGuardX, TypedCtxGuardZ, TypedLinear, TypedGuarded}

InputCoord ==
    \E text \in CoordFormulas :
        /\ text # inputValue
        /\ Becomes(IF variant = "A" THEN inputA(Begin(Now, "input", text), text)
                   ELSE inputB(Begin(Now, "input", text), text, 0))

NextCoords == InputCoord \/ Frame

SpecCoords == Init /\ [][NextCoords]_vars

(***************************************************************************)
(* Frames that pan the camera / target as far as x = -99999, the value     *)
(* both programs store in lastCamX to force the next pass                  *)
(***************************************************************************)
FarPoints == {<<SENTINEL * FP, 0>>, <<FP, 0>>}

FrameFar ==
    \E pos \in FarPoints :
        Becomes(IF variant = "A" THEN animateA(Begin(Now, "animate", <<>>), pos)
                ELSE animateB(Begin(Now, "animate", <<>>), pos, 0))

NextFar == InputCoord \/ FrameFar

SpecFar == Init /\ [][NextFar]_vars

(***************************************************************************)
(* The generate button with every shuffle sequence and one formula         *)
(***************************************************************************)
GenerateSeeded ==
    \E seed \in ShuffleSequences :
        /\ seed # permSeed
        /\ Becomes(generateNew(Begin(Now, "generateNew", Generated(variant, LowDraws).formula),
                               seed, Generated(variant, LowDraws), 0))

NextSeed == GenerateSeeded

SpecSeed == Init /\ [][NextSeed]_vars

(***************************************************************************)
(* A Ctx function called on its own, as a formula that is one call does    *)
(***************************************************************************)
\* coordinates and persistences (milli) passed to octaved
NoiseCoords == {-1500, 0, 300, 700, 2500}
Persistences == {0, 250, 500, 2000}
OctaveCounts == {FP, 2 * FP}
\* the context a call made outside of a pass sees
CallEnv == Env(variant, 0, 0, ctxX, ctxZ, PermOf[permSeed], 0)

CallOctaved ==
    \E x \in NoiseCoords, z \in NoiseCoords, oct \in OctaveCounts, per \in Persistences :
        /\ call' = [name |-> "octaved", args |-> <<Num(x), Num(z), Num(oct), Num(per)>>,
                    result |-> CtxApply("octaved",
                                        <<Num(x), Num(z), Num(oct), Num(per)>>, CallEnv)]
        /\ UNCHANGED <<variant, permSeed, compiledFunc, currentFormula, currentData,
                       lastCamX, lastCamZ, ctxX, ctxZ, cam, inst, errorMsg, inputValue,
                       tags, historyList, savedList, writes, lastPass, lastOp,
                       currentTab, steps, rows>>

NextCtx == CallOctaved

SpecCtx == Init /\ [][NextCtx]_vars

(***************************************************************************)
(* gcd and lcm called on their own with integer arguments                  *)
(***************************************************************************)
IntArgs == (-IntBound)..IntBound

CallArith ==
    \E name \in {"gcd", "lcm"}, x \in IntArgs, y \in IntArgs :
        /\ call' = [name |-> name, args |-> <<Num(x * FP), Num(y * FP)>>,
                    result |-> CtxApply(name, <<Num(x * FP), Num(y * FP)>>, CallEnv)]
        /\ UNCHANGED <<variant, permSeed, compiledFunc, currentFormula, currentData,
                       lastCamX, lastCamZ, ctxX, ctxZ, cam, inst, errorMsg, inputValue,
                       tags, historyList, savedList, writes, lastPass, lastOp,
                       currentTab, steps, rows>>

NextArith == CallArith

SpecArith == Init /\ [][NextArith]_vars

(***************************************************************************)
(* The recursive builder and the generator called on their own: one call   *)
(* in a behaviour, the generator keeps no state between calls              *)
(***************************************************************************)
\* the largest depth a category passes to the builder
MaxDepthArg(v) == IF v = "A" THEN 4 ELSE 5
\* the mode argument of buildTree in create()
BuildModes == {"INTERMEDIATE", "LONG"}

CallBuilder ==
    /\ call = NoCall
    /\ \E depth \in 0..MaxDepthArg(variant), mode \in BuildModes, st \in DrawStreams :
          /\ variant = "A" => mode = "LONG"
          /\ call' = [name |-> IF variant = "A" THEN "createExpression" ELSE "buildTree",
                      args |-> <<depth, mode, st>>,
                      result |-> IF variant = "A" THEN createExpression(depth, st, 0).s
                                 ELSE buildTree(depth, mode, st, 0).s]
          /\ UNCHANGED <<variant, permSeed, compiledFunc, currentFormula, currentData,
                         lastCamX, lastCamZ, ctxX, ctxZ, cam, inst, errorMsg, inputValue,
                         tags, historyList, savedList, writes, lastPass, lastOp,
                         currentTab, steps, rows>>

CallGenerator ==
    /\ call = NoCall
    /\ \E st \in DrawStreams :
          /\ call' = [name |-> IF variant = "A" THEN "generate" ELSE "create",
                      args |-> <<st>>, result |-> Generated(variant, st)]
          /\ UNCHANGED <<variant, permSeed, compiledFunc, currentFormula, currentData,
                         lastCamX, lastCamZ, ctxX, ctxZ, cam, inst, errorMsg, inputValue,
                         tags, historyList, savedList, writes, lastPass, lastOp,
                         currentTab, steps, rows>>

NextBuild == CallBuilder \/ CallGenerator

SpecBuild == Init /\ [][NextBuild]_vars

(***************************************************************************)
(* Noise.simplex called on its own, under every table of the model         *)
(***************************************************************************)
\* coordinates (milli) in cells on both sides of 0 and of the wrap at 256
SimplexCoords == {-257300, -1500, -700, 0, 300, 254600, 255500}

InitTables == \E v \in Variants, seed \in ShuffleSequences :
                  Is(Loaded(v, 0, seed, Generated(v, LowDraws)))

\* a call Noise.simplex(x, y): result holds the indices the call reads the
\* tables at
CallSimplex ==
    \E x \in SimplexCoords, y \in SimplexCoords :
        /\ call' = [name |-> "Noise.simplex", args |-> <<Num(x), Num(y)>>,
                    result |-> SimplexReads(PermOf[permSeed], SimplexCell(x, y).i,
                                            SimplexCell(x, y).j, SimplexCell(x, y).i1,
                                            SimplexCell(x, y).j1)]
        /\ UNCHANGED <<variant, permSeed, compiledFunc, currentFormula, currentData,
                       lastCamX, lastCamZ, ctxX, ctxZ, cam, inst, errorMsg, inputValue,
                       tags, historyList, savedList, writes, lastPass, lastOp,
                       currentTab, steps, rows>>

NextTables == CallSimplex

SpecTables == InitTables /\ [][NextTables]_vars

(***************************************************************************)
(* Properties of compiling                                                 *)
(***************************************************************************)
\* the handlers that compile their argument
CompileOps == {"input", "click", "generateNew"}
\* new Function throws a SyntaxError on the rewritten text
SyntaxErrorIn(text) == ~ParseBody(RewriteCaret(text)).ok
\* the value the smoke call at (0, 0) returns, VThrow when it throws
SmokeValue(v, text, seed, r) ==
    LET fn == BodyOf(RewriteCaret(text))
    IN  IF v = "A" THEN CallA(fn, Env("A", 0, 0, 0, 0, PermOf[seed], 0))
        ELSE CallB(fn, Env("B", 0, 0, 0, 0, PermOf[seed], RandomAt(r, 0)))
\* the smoke test throws: the call itself in script.js, isNaN of a BigInt
\* inside the try of validateAndRender in part_000
SmokeThrows(v, text, seed) ==
    /\ ~SyntaxErrorIn(text)
    /\ \A r \in RandomDraws(v, text) :
          IF v = "A" THEN SmokeValue(v, text, seed, r).t = "throw"
          ELSE IsNaNThrows(SmokeValue(v, text, seed, r))
\* the step is a handler that compiled lastOp'.arg and reported a failure
\* or met a syntax error or a throwing smoke test
FailedCompileStep ==
    /\ lastOp'.op \in CompileOps
    /\ \/ errorMsg' # NoError
       \/ SyntaxErrorIn(lastOp'.arg)
       \/ SmokeThrows(variant, lastOp'.arg, permSeed')

\* C1: a handler whose compile fails (syntax error, or a throw during the
\* smoke test) shows an error and leaves the active function, every
\* instance slot and (lastCamX, lastCamZ) as they were.
C1_FailedCompileKeepsTerrain ==
    [][FailedCompileStep =>
          /\ errorMsg' # NoError
          /\ compiledFunc' = compiledFunc
          /\ inst' = inst /\ writes' = 0
          /\ lastCamX' = lastCamX /\ lastCamZ' = lastCamZ]_vars

\* C1 happens: with a function active and the terrain sampled, script.js
\* has just rejected a formula whose smoke test throws.
C1_Witness ==
    /\ variant = "A" /\ lastOp.op = "input" /\ lastOp.arg = TypedUnknownName
    /\ errorMsg # NoError /\ compiledFunc # NoFunc /\ lastPass.ran

\* the smoke call returns NaN, an infinity or a value that is not a number
SmokeInvalid(v, text, seed) ==
    /\ ~SyntaxErrorIn(text)
    /\ \A r \in RandomDraws(v, text) :
          SmokeValue(v, text, seed, r).t \notin {"num", "throw"}

\* C2: a formula whose smoke evaluation at (0, 0) is NaN, infinite or not a
\* number is treated as invalid: an error is shown and the formula does not
\* become the active function.
C2_InvalidSmokeValueRejected ==
    [][(lastOp'.op \in CompileOps /\ SmokeInvalid(variant, lastOp'.arg, permSeed'))
          => (errorMsg' # NoError /\ compiledFunc' # RewriteCaret(lastOp'.arg))]_vars

\* the text parses and names an identifier that is neither x, z nor a key of Ctx
UnknownIdentifierIn(v, text) ==
    /\ ~SyntaxErrorIn(text)
    /\ \E i \in 1..Len(text) :
          IsIdent(text[i]) /\ text[i] \notin ({"x", "z"} \cup CtxKeys(v))

\* C3: a formula that parses and references an identifier other than x, z
\* and the Math Context names is rejected with an error and does not become
\* the active function.
C3_UnknownIdentifierRejected ==
    [][(lastOp'.op \in CompileOps /\ UnknownIdentifierIn(variant, lastOp'.arg))
          => (errorMsg' # NoError /\ compiledFunc' # RewriteCaret(lastOp'.arg))]_vars

(***************************************************************************)
(* Properties of the resample pass                                         *)
(***************************************************************************)
\* what the formula of pass evaluates to at column c, before any catch
PassColumnValue(v, pass, c) ==
    Eval(BodyOf(pass.func),
         Env(v, ColumnX(pass.cx, c) * FP, ColumnZ(pass.cz, c) * FP,
             ColumnX(pass.cx, c) * FP, ColumnZ(pass.cz, c) * FP,
             PermOf[pass.seed], RandomAt(pass.draw, c)))
\* the surface height surfaceY of a column whose evaluation gave raw: 0 when
\* it threw or was NaN or infinite, the floor of a finite height otherwise
SurfaceAsSpecified(surfaceY, raw) ==
    /\ raw.t \in {"throw", "nan", "inf", "ninf"} => surfaceY = 0
    /\ raw.t = "num" => surfaceY = FloorInt(raw.n)

\* C4: a resample pass writes all GRID * GRID * LAYERS slots; a column whose
\* evaluation throws or is NaN or infinite gets surface height 0 and every
\* other column the floor of its own height.
C4_PassCompletesWithZeroForFailures ==
    [][lastPass'.fresh =>
          /\ writes' = TOTAL_INSTANCES
          /\ \A c \in Columns :
                SurfaceAsSpecified(inst'[c * LAYERS].y,
                                   PassColumnValue(variant, lastPass', c))]_vars

\* the floored (x, z) a frame compares with (lastCamX, lastCamZ): script.js
\* reads the camera before controls.update(), part_000 the target after it
FrameAnchorX == FloorInt(IF variant = "A" THEN cam[1] ELSE cam'[1])
FrameAnchorZ == FloorInt(IF variant = "A" THEN cam[2] ELSE cam'[2])

\* C5: with a function active, a frame whose floored (x, z) equals
\* (lastCamX, lastCamZ) writes no slot; a frame where it differs resamples
\* every slot and records the new anchor in (lastCamX, lastCamZ).
C5_FrameResamplesOnAnchorChange ==
    [][(lastOp'.op = "animate" /\ compiledFunc # NoFunc) =>
          IF FrameAnchorX = lastCamX /\ FrameAnchorZ = lastCamZ
          THEN writes' = 0 /\ inst' = inst
          ELSE /\ writes' = TOTAL_INSTANCES
               /\ lastCamX' = FrameAnchorX /\ lastCamZ' = FrameAnchorZ]_vars

\* the pass of this step sampled the function, noise table and anchor that
\* the pass before it sampled, and both ran through all columns
SamePassAgain ==
    /\ lastPass'.fresh /\ lastPass.ran
    /\ lastPass.complete /\ lastPass'.complete
    /\ lastPass'.func = lastPass.func /\ lastPass'.seed = lastPass.seed
    /\ lastPass'.cx = lastPass.cx /\ lastPass'.cz = lastPass.cz

\* C6: for a fixed active formula and noise permutation, two resample passes
\* at the same anchor write the same position and color into every slot.
C6_PassIsDeterministic == [][SamePassAgain => inst' = inst]_vars

(***************************************************************************)
(* Properties of the generators                                            *)
(***************************************************************************)
\* C7: every formula the generator of a variant produces is accepted by the
\* compiler of that variant: after generateNew no error is shown and the
\* generated formula, with ^ rewritten to **, is the active function.
C7_GeneratedFormulaCompiles ==
    [][lastOp'.op = "generateNew" =>
          /\ errorMsg' = NoError
          /\ compiledFunc' = RewriteCaret(lastOp'.arg)]_vars

(***************************************************************************)
(* Properties of the history and saved lists                               *)
(***************************************************************************)
\* the formula drawn by click k on the generate button, click 0 being the
\* generateNew() of the page load
FormulaOfClick(v, k) ==
    IF k = 0 THEN Generated(v, LowDraws).formula
    ELSE Generated(v, FreshStream(v, k)).formula
\* generateNew passes its record to addToHistory
AddToHistoryCalled ==
    lastOp'.op = "generateNew" /\ (variant = "A" \/ errorMsg' = NoError)
\* list is item followed by the entries of old, cut after HISTORY_CAP entries
IsPushed(list, formula, old) ==
    /\ Len(list) = (IF Len(old) < HISTORY_CAP THEN Len(old) + 1 ELSE HISTORY_CAP)
    /\ list[1].formula = formula
    /\ \A i \in 2..Len(list) : list[i] = old[i - 1]
\* the history after nothing but clicks on the generate button that drew
\* different formulas: the last HISTORY_CAP of them, the latest first
LatestFirst(list, v, gen) ==
    /\ Len(list) = (IF gen + 1 < HISTORY_CAP THEN gen + 1 ELSE HISTORY_CAP)
    /\ \A i \in 1..Len(list) : list[i].formula = FormulaOfClick(v, gen + 1 - i)

\* C8: the history never has more than HISTORY_CAP (50) entries; a record
\* whose formula is not in the history becomes entry 0, the others move down
\* by one and only the last of 50 is dropped; after clicks that drew nothing
\* but different formulas the history holds the latest 50, latest first.
C8_HistoryCappedLatestFirst ==
    [][/\ Len(historyList') <= HISTORY_CAP
       /\ (AddToHistoryCalled /\ ~SomeFormula(historyList, lastOp'.arg))
             => IsPushed(historyList', lastOp'.arg, historyList)
       /\ steps'.ops = 0 => LatestFirst(historyList', variant, steps'.gen)]_vars
C8_Witness ==
    /\ lastOp.op = "generateNew" /\ steps.ops = 0 /\ steps.gen = HISTORY_CAP
    /\ Len(historyList) = HISTORY_CAP
    /\ historyList[HISTORY_CAP].formula = FormulaOfClick(variant, 1)

\* C9: addToHistory leaves the history unchanged exactly when the formula of
\* the new record is the formula of entry 0; a formula found only further
\* down is inserted as entry 0.
C9_OnlyHeadSuppresses ==
    [][AddToHistoryCalled =>
          IF Len(historyList) > 0 /\ historyList[1].formula = lastOp'.arg
          THEN historyList' = historyList
          ELSE IsPushed(historyList', lastOp'.arg, historyList)]_vars

\* C9 as the code has it: script.js compares the new formula with entry 0
\* only, part_000 with every entry; a record that is not suppressed becomes
\* entry 0.
C9_SuppressedPerVariant ==
    [][AddToHistoryCalled =>
          IF \/ variant = "A" /\ Len(historyList) > 0
                              /\ historyList[1].formula = lastOp'.arg
             \/ variant = "B" /\ SomeFormula(historyList, lastOp'.arg)
          THEN historyList' = historyList
          ELSE IsPushed(historyList', lastOp'.arg, historyList)]_vars
C9_Witness ==
    /\ variant = "A" /\ lastOp.op = "generateNew" /\ Len(historyList) > 2
    /\ historyList[1].formula = lastOp.arg
    /\ historyList[3].formula = lastOp.arg
    /\ historyList[2].formula # lastOp.arg

\* the formula saveCurrent looks for: the text box in script.js, currentData
\* in part_000
FormulaToSave == IF variant = "A" THEN inputValue ELSE currentData.formula

BandColor(v, s) ==
    IF s < -2 THEN "water"
    ELSE IF s < 2 THEN "sand"
    ELSE IF s < 12 THEN "grass"
    ELSE IF s < (IF v = "A" THEN 30 ELSE 20) THEN "stone"
    ELSE "snow"
\* the alien, lava and neon rules on raw height y (milli), surface height s
AlienRule(v, y) == y > (IF v = "A" THEN 50 ELSE 40) * FP
LavaRule(v, y) == y < (IF v = "A" THEN -25 ELSE -20) * FP
NeonRule(v, s, text) == v = "A" /\ IncludesMod(text) /\ s > 5
\* the pass of this step ran through every column
FullPassStep == lastPass'.fresh /\ lastPass'.complete
\* the raw height of column c in the pass of this step, 0 for a failure
PassHeight(c) == ColumnHeight(PassColumnValue(variant, lastPass', c))

\* C11: a column that no override rule applies to is WATER for s < -2, SAND
\* for -2 <= s < 2, GRASS for 2 <= s < 12, STONE for 12 <= s < B and SNOW
\* for s >= B, B being 30 in script.js and 20 in part_000; the top layer
\* shows the color of the biome.
C11_BaseBands ==
    [][FullPassStep =>
          \A c \in Columns :
              (/\ ~AlienRule(variant, PassHeight(c))
               /\ ~LavaRule(variant, PassHeight(c))
               /\ ~NeonRule(variant, FloorInt(PassHeight(c)), lastPass'.text))
              => /\ inst'[c * LAYERS].y = FloorInt(PassHeight(c))
                 /\ inst'[c * LAYERS].color = BandColor(variant, FloorInt(PassHeight(c)))]_vars
\* C11 happens: a pass has sampled a column of surface height -2 as sand.
C11_Witness ==
    /\ lastPass.fresh /\ lastPass.complete /\ lastOp.arg = HeightText(-2 * FP)
    /\ inst[0].y = -2 /\ inst[0].color = "sand"

(***************************************************************************)
(* Properties of the Math Context                                          *)
(***************************************************************************)
\* the call of this step is octaved(x, z, 1, per)
SingleOctaveCall == call'.name = "octaved" /\ call'.args[3] = Num(FP)

\* C12: octaved(x, z, 1, per) returns what the call simplex(x, z), made
\* with the same two arguments, returns.
C12_SingleOctaveIsSimplexOfTwo ==
    [][SingleOctaveCall =>
          call'.result = CtxApply("simplex", <<call'.args[1], call'.args[2]>>,
                                  CallEnv)]_vars

\* C12 as the code has it: Ctx.simplex takes (x, y, z) and ignores y, so
\* octaved(x, z, 1, per) returns what simplex(x, y, z) returns for every y,
\* the sample Noise.simplex(x, z).
C12_SingleOctaveIsSimplexOfThree ==
    [][SingleOctaveCall =>
          /\ call'.result = Num(NoiseSimplex(PermOf[permSeed], call'.args[1].n,
                                             call'.args[2].n))
          /\ \A y \in NoiseCoords :
                call'.result = CtxApply("simplex",
                                        <<call'.args[1], Num(y), call'.args[2]>>,
                                        CallEnv)]_vars
\* C12 happens: a single octave with persistence 0.25 has returned a sample
\* other than 0.
C12_Witness ==
    /\ call.name = "octaved" /\ call.args[3] = Num(FP) /\ call.args[4] = Num(250)
    /\ call.result.t = "num" /\ call.result.n # 0

(***************************************************************************)
(* Properties of a rejected edit                                           *)
(***************************************************************************)
\* what a pass over the window of lastPass' writes when the biome logic
\* reads the text the sampled function was compiled from (the rewrite of
\* '^' leaves every other token of that text as it is)
PassFromOwnText ==
    ResamplePass("A", lastPass'.func, lastPass'.func, PermOf[lastPass'.seed],
                 lastPass'.cx, lastPass'.cz, 0, inst).inst

\* C13: in script.js every resample pass, also one that follows a rejected
\* edit, writes the positions and colors that follow from the active height
\* function and the text it was compiled from.
C13_RejectedEditLeavesTerrain ==
    [][(variant = "A" /\ lastPass'.fresh) => inst' = PassFromOwnText]_vars

(***************************************************************************)
(* Properties of the layout of a pass                                      *)
(***************************************************************************)
GridIndex == 0..(GRID - 1)
Layers == 0..(LAYERS - 1)
\* the slot of layer d of column (i, j)
SlotOf(i, j, d) == (i * GRID + j) * LAYERS + d

\* C14: every resample pass writes each slot 0 .. GRID*GRID*LAYERS - 1 once,
\* layer d of column (i, j) into slot (i*GRID + j)*LAYERS + d; the running
\* index ends at GRID*GRID*LAYERS.
C14_EverySlotWrittenOnce ==
    [][lastPass'.fresh =>
          /\ writes' = TOTAL_INSTANCES
          /\ {SlotOf(i, j, d) : i \in GridIndex, j \in GridIndex, d \in Layers} = Slots
          /\ \A i \in GridIndex, j \in GridIndex, d \in Layers :
                /\ inst'[SlotOf(i, j, d)].color # "none"
                /\ inst'[SlotOf(i, j, d)].shade = LayerShade(variant, d)
                /\ inst'[SlotOf(i, j, d)].x = inst'[SlotOf(i, j, 0)].x
                /\ inst'[SlotOf(i, j, d)].z = inst'[SlotOf(i, j, 0)].z]_vars

\* the world cells around the anchor of the pass of this step
WindowX == (lastPass'.cx - GRID \div 2)..(lastPass'.cx + GRID \div 2 - 1)
WindowZ == (lastPass'.cz - GRID \div 2)..(lastPass'.cz + GRID \div 2 - 1)

\* C15: a resample pass with anchor (cx, cz) samples for column (i, j) the
\* world cell (cx - GRID/2 + i, cz - GRID/2 + j): every cell of the square
\* around the anchor once, the anchor cell among them; layer d of a column
\* of surface height s is put at (wx, s - d, wz).
C15_WindowAroundAnchor ==
    [][lastPass'.fresh =>
          /\ lastPass'.complete
          /\ \A i \in GridIndex, j \in GridIndex, d \in Layers :
                /\ inst'[SlotOf(i, j, d)].x = lastPass'.cx - GRID \div 2 + i
                /\ inst'[SlotOf(i, j, d)].z = lastPass'.cz - GRID \div 2 + j
                /\ inst'[SlotOf(i, j, d)].y = FloorInt(PassHeight(i * GRID + j)) - d
          /\ {<<inst'[c * LAYERS].x, inst'[c * LAYERS].z>> : c \in Columns}
                = WindowX \X WindowZ
          /\ <<lastPass'.cx, lastPass'.cz>> \in WindowX \X WindowZ]_vars

(***************************************************************************)
(* Properties of the override rules and the layer colors                   *)
(***************************************************************************)
\* the top layer of column c after this step
TopColor(c) == inst'[c * LAYERS].color

\* C16: the override rules win over the base band: raw height above the
\* alien threshold (50 in script.js, 40 in part_000) is ALIEN, below the
\* lava threshold (-25, -20) is LAVA, whatever the band and the neon rule
\* say; in script.js a text with 'mod' and surface height > 5 is NEON only
\* when neither of the two applies.
C16_OverridesTakePrecedence ==
    [][FullPassStep =>
          \A c \in Columns :
              /\ AlienRule(variant, PassHeight(c)) => TopColor(c) = "alien"
              /\ LavaRule(variant, PassHeight(c)) => TopColor(c) = "lava"
              /\ TopColor(c) = "neon" <=>
                    /\ NeonRule(variant, FloorInt(PassHeight(c)), lastPass'.text)
                    /\ ~AlienRule(variant, PassHeight(c))
                    /\ ~LavaRule(variant, PassHeight(c))]_vars
\* C16 happens: script.js has sampled mod(51, 60), height 51 with 'mod' in
\* the text, as alien.
C16_Witness ==
    /\ variant = "A" /\ lastPass.fresh /\ lastPass.complete
    /\ lastPass.text = ModText(51) /\ inst[0].y = 51 /\ inst[0].color = "alien"

\* the color of the top layer that follows from the rules of C11 and C16
ClassColor(v, y, text) ==
    IF LavaRule(v, y) THEN "lava"
    ELSE IF AlienRule(v, y) THEN "alien"
    ELSE IF NeonRule(v, FloorInt(y), text) THEN "neon"
    ELSE BandColor(v, FloorInt(y))
\* the subsurface palette under a top layer of color top
Subsurface(top) ==
    IF top \in {"water", "sand"} THEN top
    ELSE IF top = "grass" THEN "dirt" ELSE "stone"
\* layer 0 has the color of the biome, undarkened
TopLayerPlain(c) ==
    /\ TopColor(c) = ClassColor(variant, PassHeight(c), lastPass'.text)
    /\ inst'[c * LAYERS].shade = FP
\* the factor of every layer d >= 1 is below 1 and below that of layer d - 1
ShadesDecrease(c) ==
    \A d \in 1..(LAYERS - 1) :
        inst'[c * LAYERS + d].shade < inst'[c * LAYERS + d - 1].shade

\* C17: layer 0 has the color of the biome undarkened, layer 1 the
\* subsurface color (water, sand, dirt under grass, else stone), every layer
\* d >= 2 stone, and the factor of the layers d >= 1 decreases with d.
C17_StoneFromLayerTwo ==
    [][FullPassStep =>
          \A c \in Columns :
              /\ TopLayerPlain(c)
              /\ inst'[c * LAYERS + 1].color = Subsurface(TopColor(c))
              /\ \A d \in 2..(LAYERS - 1) : inst'[c * LAYERS + d].color = "stone"
              /\ ShadesDecrease(c)]_vars

\* C17 as the code has it: in part_000 layer 2 has the subsurface color of
\* layer 1 and only layer 3 is always stone; the factors are 0.8, 0.7, 0.6
\* in script.js and 0.85, 0.8, 0.75 in part_000.
C17_LayerColorsPerVariant ==
    [][FullPassStep =>
          \A c \in Columns :
              /\ TopLayerPlain(c)
              /\ inst'[c * LAYERS + 1].color = Subsurface(TopColor(c))
              /\ inst'[c * LAYERS + 2].color =
                    (IF variant = "A" THEN "stone" ELSE Subsurface(TopColor(c)))
              /\ inst'[c * LAYERS + 3].color = "stone"
              /\ ShadesDecrease(c)
              /\ \A d \in 1..(LAYERS - 1) :
                    inst'[c * LAYERS + d].shade =
                        (IF variant = "A" THEN 900 - 100 * d ELSE 900 - 50 * d)]_vars
\* C17 happens: part_000 has sampled a grass column, with dirt on layers 1
\* and 2.
C17_Witness ==
    /\ variant = "B" /\ lastPass.fresh /\ lastPass.complete
    /\ inst[0].color = "grass" /\ inst[1].color = "dirt"
    /\ inst[2].color = "dirt" /\ inst[3].color = "stone"

(***************************************************************************)
(* Properties of the Ctx coordinates                                       *)
(***************************************************************************)
\* the text with the arguments x and z in place of _x and _z
ArgText(t) ==
    [i \in 1..Len(t) |-> IF t[i] = "_x" THEN "x" ELSE IF t[i] = "_z" THEN "z" ELSE t[i]]
\* a value of Ctx._x and Ctx._z that no call of the function is given
StaleCoord == 7 * FP
\* what a call with arguments (x, z) returns when the function reads the
\* arguments wherever its text reads Ctx._x and Ctx._z
ArgValue(f, x, z, seed) ==
    CallA(BodyOf(ArgText(f)), Env("A", x, z, StaleCoord, StaleCoord, PermOf[seed], 0))

\* C18: in script.js (Ctx._x, Ctx._z) equal the arguments (x, z) at every
\* call of the compiled function: the smoke call at (0, 0) accepts a text
\* exactly when the text reading x and z would pass at (0, 0), every column
\* of a pass gets the height the text reading x and z has at the column, and
\* the pass leaves the coordinates of its last column in Ctx.
C18_CtxCoordsAreArguments ==
    [][variant = "A" =>
          /\ (lastOp'.op = "input" /\ ParseBody(RewriteCaret(lastOp'.arg)).ok) =>
                 ((errorMsg' = NoError)
                     <=> ArgValue(RewriteCaret(lastOp'.arg), 0, 0, permSeed').t # "throw")
          /\ lastPass'.fresh =>
                 /\ \A c \in Columns :
                       SurfaceAsSpecified(
                           inst'[c * LAYERS].y,
                           ArgValue(lastPass'.func, ColumnX(lastPass'.cx, c) * FP,
                                    ColumnZ(lastPass'.cz, c) * FP, lastPass'.seed))
                 /\ ctxX' = ColumnX(lastPass'.cx, GRID * GRID - 1) * FP
                 /\ ctxZ' = ColumnZ(lastPass'.cz, GRID * GRID - 1) * FP]_vars
\* script.js has accepted a text that throws wherever Ctx._x is not 0, with
\* Ctx._x left at a column east of 0 by the pass: the column at x = 0 has
\* height 5 and a column where the text throws has height 0
C18_Witness ==
    /\ variant = "A" /\ errorMsg = NoError
    /\ lastPass.fresh /\ lastPass.text = TypedCtxGuardX
    /\ ctxX # 0
    /\ \E c \in Columns : inst[c * LAYERS].x = 0 /\ inst[c * LAYERS].y = 5
    /\ \E c \in Columns : inst[c * LAYERS].x # 0 /\ inst[c * LAYERS].y = 0

(***************************************************************************)
(* Properties of the pass that follows a compile                           *)
(***************************************************************************)
\* pass ran in the last handler, through every column, with function f
FullPassWith(pass, f) == pass.fresh /\ pass.complete /\ pass.func = f

\* C19: after a successful compile a full resample pass with the new
\* function has run by the end of the next animation frame: in the
\* compiling handler itself or in the frame that follows it, wherever the
\* camera / target is and whatever anchor is recorded.
C19_ResampleByNextFrame ==
    [][(lastOp.op \in CompileOps /\ errorMsg = NoError /\ lastOp'.op = "animate") =>
          \/ FullPassWith(lastPass, compiledFunc)
          \/ FullPassWith(lastPass', compiledFunc)]_vars

(***************************************************************************)
(* Properties of the noise table                                           *)
(***************************************************************************)
\* Noise.perm as the last Noise.seed() left it
perm == PermOf[permSeed]

\* C20: after any number of Noise.seed() calls perm[0..255] holds every
\* value of 0..255 exactly once and perm[i] = perm[i mod 256] for every i
\* in 0..511.
C20_PermIsDoubledPermutation ==
    /\ DOMAIN perm = 0..511
    /\ {perm[i] : i \in 0..255} = 0..255
    /\ \A i \in 0..511 : perm[i] = perm[i % 256]
\* the generate button has reseeded the table with a shuffle that moved
\* entries: draws that collide (a stride of 2 over the 256 steps)
C20_Witness ==
    /\ lastOp.op = "generateNew"
    /\ permSeed \in ShuffleSequences \ SeedChoices
    /\ SeedDraw(permSeed, 0) = SeedDraw(permSeed, 128)
    /\ perm[0] # 0
    /\ \E i \in 0..255 : perm[i] # i /\ perm[perm[i]] # i

(***************************************************************************)
(* Properties of gcd and lcm                                               *)
(***************************************************************************)
Divides(d, n) == n % d = 0
\* the greatest common divisor of the naturals a and b, 0 for (0, 0)
GreatestCommonDivisor(a, b) ==
    IF a = 0 /\ b = 0 THEN 0
    ELSE CHOOSE d \in 1..(a + b) :
            /\ Divides(d, a) /\ Divides(d, b)
            /\ \A e \in 1..(a + b) : (Divides(e, a) /\ Divides(e, b)) => e <= d
\* the least common multiple of the positive naturals a and b
LeastCommonMultiple(a, b) ==
    CHOOSE m \in 1..(a * b) :
        /\ Divides(a, m) /\ Divides(b, m)
        /\ \A n \in 1..(a * b) : (Divides(a, n) /\ Divides(b, n)) => m <= n
\* the integer arguments of the call
CallX == call.args[1].n \div FP
CallY == call.args[2].n \div FP

\* C24: for integers x and y of the range, gcd(x, y) returns the greatest
\* common divisor of |x| and |y| (|x| for y = 0, 0 for (0, 0)); lcm(x, y)
\* returns 0 when x or y is 0 and otherwise |x*y| / gcd(x, y), which is the
\* least common multiple of |x| and |y|.
C24_GcdAndLcm ==
    /\ call.name = "gcd" =>
          /\ call.result = Num(GreatestCommonDivisor(Abs(CallX), Abs(CallY)) * FP)
          /\ CallY = 0 => call.result = Num(Abs(CallX) * FP)
    /\ call.name = "lcm" =>
          IF CallX = 0 \/ CallY = 0 THEN call.result = Num(0)
          ELSE /\ call.result = Num(LeastCommonMultiple(Abs(CallX), Abs(CallY)) * FP)
               /\ call.result.n * GreatestCommonDivisor(Abs(CallX), Abs(CallY))
                     = Abs(CallX * CallY) * FP
\* lcm(-4, 6) has returned 12
C24_Witness ==
    /\ call.name = "lcm"
    /\ call.args = <<Num(-4 * FP), Num(6 * FP)>>
    /\ call.result = Num(12 * FP)

(***************************************************************************)
(* Properties of the table reads of Noise.simplex                          *)
(***************************************************************************)
SimplexCalled == call.name = "Noise.simplex"
\* the cell of the call
CalledCell == SimplexCell(call.args[1].n, call.args[2].n)

\* C22: in Noise.simplex, for every skewed cell (i, j), negative ones
\* included, and every table seed() produces, the six indices perm is read
\* at lie in 0..511 and the three gradient indices in 0..11.
C22_TableReadsInBounds ==
    SimplexCalled =>
        /\ \A k \in 1..6 : call.result.perm[k] \in 0..511
        /\ \A k \in 1..3 : call.result.grad[k] \in 0..11
\* a call in a cell with negative i whose low eight bits are 255, under a
\* shuffled table, has read perm in its upper half
C22_Witness ==
    /\ SimplexCalled
    /\ CalledCell.i < 0 /\ CellIndex(CalledCell.i) = 255
    /\ perm[0] # 0
    /\ \E k \in 1..6 : call.result.perm[k] > 255

(***************************************************************************)
(* Properties of the recursive builder                                     *)
(***************************************************************************)
\* the parentheses open at token k of s, that token included
OpenAt(s, k) ==
    Cardinality({j \in 1..k : s[j] = "("}) - Cardinality({j \in 1..k : s[j] = ")"})
\* "(" at k belongs to a leaf: the call rand() of script.js, the (v*scale)
\* of getVar in part_000
LeafParen(v, s, k) ==
    k < Len(s) /\ (IF v = "A" THEN s[k + 1] = ")" ELSE s[k + 1] \in {"x", "z"})
\* The height of the tree the builder made s from: every node above the
\* leaves encloses its children in one pair of parentheses.
ExprHeight(v, s) ==
    LET nodes == {k \in 1..Len(s) : s[k] = "(" /\ ~LeafParen(v, s, k)}
    IN  IF nodes = {} THEN 0
        ELSE CHOOSE h \in {OpenAt(s, k) : k \in nodes} :
                 \A k \in nodes : OpenAt(s, k) <= h
BuilderCalled == call.name \in {"createExpression", "buildTree"}
GeneratorCalled == call.name \in {"generate", "create"}
\* the depth argument of the category and the parentheses its template
\* puts around the tree; -1 for a category that does not call the builder
TreeBound(v, type) ==
    IF v = "A"
    THEN CASE type = "INTERMEDIATE" -> 3
           [] type = "EXPERT" -> 4 + 1
           [] type = "UNREAL" -> 3 + 1
           [] type = "LONG MATH" -> 2
           [] OTHER -> -1
    ELSE CASE type = "INTERMEDIATE" -> 2
           [] type = "LONG" -> 5
           [] OTHER -> -1

\* C21: every call of the builder and of the generator returns, for every
\* category and every outcome of the draws; the tree built with depth d has
\* height at most d, and a generated formula at most the height its
\* category's depth argument allows (at most 4 in script.js, 5 in part_000).
C21_TreeHeightBounded ==
    /\ BuilderCalled => ExprHeight(variant, call.result) <= call.args[1]
    /\ (GeneratorCalled /\ TreeBound(variant, call.result.type) >= 0) =>
          /\ ExprHeight(variant, call.result.formula)
                <= TreeBound(variant, call.result.type)
          /\ TreeBound(variant, call.result.type) <= MaxDepthArg(variant) + 1
\* the builder of script.js, called with depth 4, has built a tree of
\* height 4
C21_Witness ==
    /\ variant = "A" /\ BuilderCalled
    /\ call.args[1] = 4
    /\ ExprHeight("A", call.result) = 4

(***************************************************************************)
(* Properties of the rows of the sidebar                                   *)
(***************************************************************************)
ListNames == {"history", "saved"}
\* every container shows the entries of the list its rows were built from,
\* in the order of the list, row k holding index k - 1; the sidebar of
\* script.js shows the list of the current tab
RowsMatchLists ==
    \A c \in DOMAIN rows :
        /\ rows[c].items = ListOf(Now, rows[c].list)
        /\ rows[c].list = (IF variant = "A" THEN currentTab ELSE c)
\* the list after the step
ListAfter(name) == IF name = "history" THEN historyList' ELSE savedList'
\* the step is a click on the delete button of a row built from list name,
\* and removes from the list the entry that row displays and nothing else
DeletesShownRow(name) ==
    /\ lastOp'.op = "delete"
    /\ \E c \in DOMAIN rows : \E k \in 1..Len(rows[c].items) :
          /\ lastOp'.arg = <<c, ToString(k - 1)>>
          /\ rows[c].list = name
          /\ ListOf(Now, name)[k] = rows[c].items[k]
          /\ ListAfter(name) = SubSeq(ListOf(Now, name), 1, k - 1)
                                  \o SubSeq(ListOf(Now, name), k + 1,
                                            Len(ListOf(Now, name)))
\* the step puts one entry in front of the list
PushesEntry(name) ==
    /\ Len(ListAfter(name)) = Len(ListOf(Now, name)) + 1
    /\ Tail(ListAfter(name)) = ListOf(Now, name)
\* the step puts one entry in front of the full history and drops its last
EvictsOldest(name) ==
    /\ name = "history" /\ lastOp'.op = "generateNew"
    /\ Len(historyList) = HISTORY_CAP /\ Len(historyList') = HISTORY_CAP
    /\ Tail(historyList') = SubSeq(historyList, 1, HISTORY_CAP - 1)

\* C23: after any interleaving of generate, save, tab and delete events the
\* rows shown are the entries of the list they were rendered from, in its
\* order and with its indices; the delete button of row k removes the entry
\* row k displays and no other; an entry leaves a list only by such a
\* delete or by the eviction of the oldest entry of a full history.
C23_RowsAreTheList ==
    [][/\ RowsMatchLists /\ RowsMatchLists'
       /\ \A name \in ListNames :
             \/ ListAfter(name) = ListOf(Now, name)
             \/ PushesEntry(name)
             \/ EvictsOldest(name)
             \/ DeletesShownRow(name)]_vars
\* script.js after a click on the delete button of the second row of the
\* history, with one entry less than the cap left in the list and in the rows
C23_Witness ==
    /\ variant = "A" /\ lastOp = [op |-> "delete", arg |-> <<"sidebar", "1">>]
    /\ currentTab = "history"
    /\ rows.sidebar.items = historyList
    /\ Len(historyList) = HISTORY_CAP - 1

====
